---- MODULE Spec2Model ----
(***************************************************************************)
(* Model of the arbitrage engine (src/src/core/arbitrage/engine.py):       *)
(* the scan loop of ArbitrageEngine.start, the concurrent refresh of       *)
(* _update_market_data, symbol discovery, and the profit / slippage        *)
(* calculator used by scan_opportunities.                                  *)
(*                                                                         *)
(* A Python float is a rational <<n, d>> (d > 0, reduced) that the float   *)
(* format can represent: every arithmetic operation of the engine rounds   *)
(* its exact result to the nearest such value.  Prices and sizes of        *)
(* order-book levels are naturals.                                         *)
(***************************************************************************)
EXTENDS Integers, Sequences, FiniteSets, TLC

\* ------------------------------------------------------------------------
\* Rational arithmetic, the exact results that the float operations round
\* ------------------------------------------------------------------------
RECURSIVE GCD(_, _)
GCD(a, b) ==
    IF b = 0 THEN a ELSE GCD(b, a % b)

Abs(x) ==
    IF x < 0 THEN -x ELSE x

Rat(n, d) ==
    LET s == IF d < 0 THEN -1 ELSE 1
        Reduced(g) ==
            IF n * s < 0 THEN <<-(Abs(n) \div g), Abs(d) \div g>>
            ELSE <<Abs(n) \div g, Abs(d) \div g>>
    IN  IF n = 0 THEN <<0, 1>>
        ELSE Reduced(GCD(Abs(n), Abs(d)))

RInt(i) ==
    <<i, 1>>

RMul(x, y) ==
    LET Cross(a, b) == Rat(a[1] * b[1], a[2] * b[2])
    IN  Cross(Rat(x[1], y[2]), Rat(y[1], x[2]))

RAdd(x, y) ==
    LET Over(g) ==
            Rat(x[1] * (y[2] \div g) + y[1] * (x[2] \div g), (x[2] \div g) * y[2])
    IN  Over(GCD(x[2], y[2]))

RNeg(x) ==
    <<-x[1], x[2]>>

RSub(x, y) ==
    RAdd(x, RNeg(y))

\* x / y for y # 0 (callers test for a zero divisor first)
RDiv(x, y) ==
    RMul(x, IF y[1] < 0 THEN <<-y[2], -y[1]>> ELSE <<y[2], y[1]>>)

RLt(x, y) ==
    x[1] * y[2] < y[1] * x[2]

RLe(x, y) ==
    x[1] * y[2] <= y[1] * x[2]

RMin(x, y) ==
    IF RLe(x, y) THEN x ELSE y

RZero ==
    <<0, 1>>

ROne ==
    <<1, 1>>

\* ------------------------------------------------------------------------
\* Python floats: binary floating point, every operation rounded to the
\* nearest representable value, ties to the even significand.  The
\* significand has MantissaBits bits (53 in CPython).
\* ------------------------------------------------------------------------

MantissaBits ==
    8

\* q + r/d rounded to the nearest integer, ties to even
Nearest(q, r, d) ==
    IF 2 * r > d \/ (2 * r = d /\ q % 2 = 1) THEN q + 1 ELSE q

\* a/d * up/down with the sign s, rounded: the significand a/d is first
\* brought into [2^(MantissaBits-1), 2^MantissaBits)
RECURSIVE Normalize(_, _, _, _, _)
Normalize(a, d, up, down, s) ==
    IF a >= d * 2^MantissaBits THEN Normalize(a, d * 2, up * 2, down, s)
    ELSE IF a < d * 2^(MantissaBits - 1) THEN Normalize(a * 2, d, up, down * 2, s)
    ELSE Rat(s * Nearest(a \div d, a % d, d) * up, down)

\* the float nearest to the rational x
Fl(x) ==
    IF x[1] = 0 THEN RZero
    ELSE Normalize(Abs(x[1]), x[2], 1, 1, IF x[1] < 0 THEN -1 ELSE 1)

\* x + y, x - y, x * y, x / y of floats
FAdd(x, y) ==
    Fl(RAdd(x, y))

FSub(x, y) ==
    Fl(RSub(x, y))

FMul(x, y) ==
    Fl(RMul(x, y))

FDiv(x, y) ==
    Fl(RDiv(x, y))

\* ------------------------------------------------------------------------
\* Profit / slippage calculator
\* ------------------------------------------------------------------------

\* The loop of estimate_slippage over one side of the book: fills levels
\* while total_amount < target_amount and returns <<total_amount, weighted_price>>.
RECURSIVE FillLevels(_, _, _, _, _)
FillLevels(levels, i, total_amount, weighted_price, target_amount) ==
    IF i > Len(levels) THEN <<total_amount, weighted_price>>
    ELSE IF RLt(total_amount, target_amount)
    THEN LET price == RInt(levels[i][1])
             size == RInt(levels[i][2])
             Fill(fill_amount) ==
                 FillLevels(levels, i + 1, FAdd(total_amount, fill_amount),
                            FAdd(weighted_price, FMul(price, fill_amount)),
                            target_amount)
         IN  Fill(RMin(size, FSub(target_amount, total_amount)))
    ELSE <<total_amount, weighted_price>>

estimate_slippage(order_book, amount, side) ==
    LET levels == IF side = "buy" THEN order_book.asks ELSE order_book.bids
        best == IF levels # <<>> THEN RInt(levels[1][1]) ELSE RZero
        Slippage(average_price) ==
            IF RLt(RZero, best)
            THEN IF side = "buy"
                 THEN FDiv(FSub(average_price, best), best)
                 ELSE FDiv(FSub(best, average_price), best)
            ELSE RZero
        Average(total_amount, weighted_price) ==
            IF RLt(RZero, total_amount)
            THEN Slippage(FDiv(weighted_price, total_amount))
            ELSE RZero
        Filled(filled) == Average(filled[1], filled[2])
    IN  Filled(FillLevels(levels, 1, RZero, RZero, amount))

\* order_books_cache[symbol] is a dict exchange -> entry that keeps insertion
\* order: a sequence of entries [exchange, data, timestamp].
HasExchange(entries, exchange) ==
    \E k \in 1..Len(entries) : entries[k].exchange = exchange

EntryOf(entries, exchange) ==
    entries[CHOOSE k \in 1..Len(entries) : entries[k].exchange = exchange]

DefaultFeeRate ==
    <<1, 1000>>

\* mutant of FeeRate: the maker rate on both legs
FeeRate_AlwaysMaker(fees_cache, exchange, symbol, side) ==
    IF exchange \in DOMAIN fees_cache
    THEN IF symbol \in DOMAIN fees_cache[exchange]
         THEN IF "maker" \in DOMAIN fees_cache[exchange][symbol]
              THEN fees_cache[exchange][symbol]["maker"] ELSE DefaultFeeRate
         ELSE DefaultFeeRate
    ELSE DefaultFeeRate

\* fees[symbol].get(side, 0.001) behind the two membership tests
FeeRate(fees_cache, exchange, symbol, side) ==
    IF exchange \in DOMAIN fees_cache
    THEN LET fees == fees_cache[exchange]
         IN  IF symbol \in DOMAIN fees
             THEN IF side \in DOMAIN fees[symbol] THEN fees[symbol][side] ELSE DefaultFeeRate
             ELSE DefaultFeeRate
    ELSE DefaultFeeRate

CalcZero ==
    [raised |-> FALSE, profit |-> RZero, profit_percentage |-> RZero,
     buy_slippage |-> RZero, sell_slippage |-> RZero]

CalcRaised ==
    [raised |-> TRUE, profit |-> RZero, profit_percentage |-> RZero,
     buy_slippage |-> RZero, sell_slippage |-> RZero]

\* calculate_potential_profit; raised = TRUE stands for the ZeroDivisionError
\* of a division whose divisor is zero.
calculate_potential_profit(cache, fees_cache, symbol, buy_exchange, sell_exchange, amount) ==
    IF \/ symbol \notin DOMAIN cache
       \/ ~HasExchange(cache[symbol], buy_exchange)
       \/ ~HasExchange(cache[symbol], sell_exchange)
    THEN CalcZero
    ELSE
    LET buy_order_book == EntryOf(cache[symbol], buy_exchange).data
        sell_order_book == EntryOf(cache[symbol], sell_exchange).data
    IN  IF buy_order_book.asks = <<>> \/ sell_order_book.bids = <<>>
        THEN CalcZero
        ELSE
        LET buy_price == RInt(buy_order_book.asks[1][1])
            sell_price == RInt(sell_order_book.bids[1][1])
        IN  IF buy_price = RZero THEN CalcRaised
            ELSE
            LET buy_fee_rate == Fl(FeeRate(fees_cache, buy_exchange, symbol, "taker"))
                sell_fee_rate == Fl(FeeRate(fees_cache, sell_exchange, symbol, "maker"))
                buy_fee == FMul(amount, buy_fee_rate)
                Result(buy_slippage, sell_slippage, profit) ==
                    [raised |-> FALSE, profit |-> profit,
                     profit_percentage |-> FMul(FDiv(profit, amount), RInt(100)),
                     buy_slippage |-> buy_slippage, sell_slippage |-> sell_slippage]
                Sale(buy_slippage, sell_slippage, sale_amount_before_fee) ==
                    \* sell_fee = sale_amount_before_fee * sell_fee_rate
                    \* sale_amount = sale_amount_before_fee - sell_fee
                    \* profit = sale_amount - amount
                    Result(buy_slippage, sell_slippage,
                           FSub(FSub(sale_amount_before_fee,
                                     FMul(sale_amount_before_fee, sell_fee_rate)),
                                amount))
                Trade(buy_slippage, sell_slippage, adjusted_buy_price, adjusted_sell_price) ==
                    IF adjusted_buy_price = RZero \/ amount = RZero THEN CalcRaised
                    ELSE \* coins_bought = (amount - buy_fee) / adjusted_buy_price
                         \* coins_after_transfer = coins_bought
                         \* sale_amount_before_fee = coins_after_transfer * adjusted_sell_price
                         Sale(buy_slippage, sell_slippage,
                              FMul(FDiv(FSub(amount, buy_fee), adjusted_buy_price),
                                   adjusted_sell_price))
                Slipped(buy_slippage, sell_slippage) ==
                    Trade(buy_slippage, sell_slippage,
                          FMul(buy_price, FAdd(ROne, buy_slippage)),
                          FMul(sell_price, FSub(ROne, sell_slippage)))
            IN  Slipped(estimate_slippage(buy_order_book, FDiv(amount, buy_price), "buy"),
                        estimate_slippage(sell_order_book, FDiv(amount, buy_price), "sell"))

\* ------------------------------------------------------------------------
\* Opportunity scanner
\* ------------------------------------------------------------------------

\* The index pairs (i, j), i < j <= n, in the order of the two nested loops.
RECURSIVE PairsFrom(_, _, _)
PairsFrom(i, j, n) ==
    IF i >= n THEN <<>>
    ELSE IF j > n THEN PairsFrom(i + 1, i + 2, n)
    ELSE <<<<i, j>>>> \o PairsFrom(i, j + 1, n)

\* mutant of Direction: the reverse direction is never taken
Direction_NoReverse(buy_book, sell_book) ==
    IF buy_book.asks = <<>> \/ sell_book.bids = <<>> THEN "skip"
    ELSE IF sell_book.bids[1][1] > buy_book.asks[1][1]
    THEN IF buy_book.asks[1][1] = 0 THEN "raise" ELSE "normal"
    ELSE IF sell_book.asks = <<>> \/ buy_book.bids = <<>> THEN "raise"
    ELSE "skip"

\* mutant of Direction: a bid equal to the ask counts as favourable
Direction_NotStrict(buy_book, sell_book) ==
    IF buy_book.asks = <<>> \/ sell_book.bids = <<>> THEN "skip"
    ELSE IF sell_book.bids[1][1] >= buy_book.asks[1][1]
    THEN IF buy_book.asks[1][1] = 0 THEN "raise" ELSE "normal"
    ELSE IF sell_book.asks = <<>> \/ buy_book.bids = <<>> THEN "raise"
    ELSE IF buy_book.bids[1][1] >= sell_book.asks[1][1]
    THEN IF sell_book.asks[1][1] = 0 THEN "raise" ELSE "reverse"
    ELSE "skip"

\* The direction test of one pair; buy_book is the book of exchange_names[i],
\* sell_book that of exchange_names[j].  "raise" is the IndexError of reading
\* level 0 of an empty side, or the ZeroDivisionError of price_difference_pct.
Direction(buy_book, sell_book) ==
    IF buy_book.asks = <<>> \/ sell_book.bids = <<>> THEN "skip"
    ELSE IF sell_book.bids[1][1] > buy_book.asks[1][1]
    THEN IF buy_book.asks[1][1] = 0 THEN "raise" ELSE "normal"
    ELSE IF sell_book.asks = <<>> \/ buy_book.bids = <<>> THEN "raise"
    ELSE IF buy_book.bids[1][1] > sell_book.asks[1][1]
    THEN IF sell_book.asks[1][1] = 0 THEN "raise" ELSE "reverse"
    ELSE "skip"

\* mutant of IsViable: the slippage of the sell leg is not tested
IsViable_SellSlippageIgnored(res, min_profit, max_slip) ==
    /\ RLe(min_profit, res.profit_percentage)
    /\ RLe(res.buy_slippage, RDiv(max_slip, RInt(100)))

\* The threshold test on the calculator's result.
IsViable(res, min_profit, max_slip) ==
    /\ RLe(min_profit, res.profit_percentage)
    /\ RLe(res.buy_slippage, RDiv(max_slip, RInt(100)))
    /\ RLe(res.sell_slippage, RDiv(max_slip, RInt(100)))

\* if self.opportunity_callback: try: asyncio.create_task(callback(opportunity))
\* except Exception: logger.error(...).  A plain function that raises does so
\* in the call, inside the try; a coroutine function only makes a coroutine,
\* which create_task schedules: its body runs later, outside the try.
Dispatch(acc, callback, opportunity) ==
    IF callback = "none" THEN acc
    ELSE IF callback = "sync_raises"
    THEN [acc EXCEPT !.callback_errors = @ + 1]
    ELSE [acc EXCEPT !.dispatched = Append(@, opportunity)]

\* The part of one iteration of the inner loop of scan_opportunities that
\* follows the call of calculate_potential_profit: res is what the call gave.
\* acc carries the opportunities list, the calls made to
\* calculate_potential_profit, and whether an exception has escaped.
ScanResult(acc, cfg, symbol, buy_entry, sell_entry, res, t) ==
    LET call == [symbol |-> symbol, buy_exchange |-> buy_entry.exchange,
                 sell_exchange |-> sell_entry.exchange]
        opportunity == [symbol |-> symbol,
                        buy_exchange |-> buy_entry.exchange,
                        sell_exchange |-> sell_entry.exchange,
                        buy_price |-> buy_entry.data.asks[1][1],
                        sell_price |-> sell_entry.data.bids[1][1],
                        profit |-> res.profit,
                        profit_percentage |-> res.profit_percentage,
                        buy_slippage |-> res.buy_slippage,
                        sell_slippage |-> res.sell_slippage,
                        timestamp |-> t]
    IN  IF res.raised
        THEN [acc EXCEPT !.raised = TRUE, !.calc_calls = Append(@, call)]
        ELSE IF IsViable(res, cfg.min_profit_percentage, cfg.max_slippage)
        THEN Dispatch([acc EXCEPT !.calc_calls = Append(@, call),
                                  !.opportunities = Append(@, opportunity)],
                      cfg.opportunity_callback, opportunity)
        ELSE [acc EXCEPT !.calc_calls = Append(@, call)]

\* The call of calculate_potential_profit for the chosen direction.
ScanTrade(acc, cache, fees_cache, cfg, symbol, buy_entry, sell_entry, t) ==
    ScanResult(acc, cfg, symbol, buy_entry, sell_entry,
               calculate_potential_profit(cache, fees_cache, symbol,
                   buy_entry.exchange, sell_entry.exchange, cfg.initial_capital),
               t)

\* One iteration of the inner loop once the direction dir has been chosen:
\* the books are swapped for the reverse direction.
ScanDirected(acc, cache, fees_cache, cfg, symbol, dir, entryI, entryJ, t) ==
    IF acc.raised THEN acc
    ELSE IF dir = "skip" THEN acc
    ELSE IF dir = "raise" THEN [acc EXCEPT !.raised = TRUE]
    ELSE IF dir = "reverse"
    THEN ScanTrade(acc, cache, fees_cache, cfg, symbol, entryJ, entryI, t)
    ELSE ScanTrade(acc, cache, fees_cache, cfg, symbol, entryI, entryJ, t)

\* One iteration of the inner loop of scan_opportunities.
ScanPair(acc, cache, fees_cache, cfg, symbol, entryI, entryJ, t) ==
    ScanDirected(acc, cache, fees_cache, cfg, symbol,
                 Direction(entryI.data, entryJ.data), entryI, entryJ, t)

RECURSIVE ScanPairs(_, _, _, _, _, _, _, _)
ScanPairs(acc, cache, fees_cache, cfg, symbol, pairs, k, t) ==
    IF k > Len(pairs) THEN acc
    ELSE ScanPairs(ScanPair(acc, cache, fees_cache, cfg, symbol,
                            cache[symbol][pairs[k][1]], cache[symbol][pairs[k][2]], t),
                   cache, fees_cache, cfg, symbol, pairs, k + 1, t)

RECURSIVE ScanSymbols(_, _, _, _, _, _, _)
ScanSymbols(acc, cache, fees_cache, cfg, symbols, k, t) ==
    IF k > Len(symbols) THEN acc
    ELSE IF symbols[k] \notin DOMAIN cache
    THEN ScanSymbols(acc, cache, fees_cache, cfg, symbols, k + 1, t)
    ELSE ScanSymbols(ScanPairs(acc, cache, fees_cache, cfg, symbols[k],
                               PairsFrom(1, 2, Len(cache[symbols[k]])), 1, t),
                     cache, fees_cache, cfg, symbols, k + 1, t)

\* scan_opportunities: the list it builds, the calculator calls it makes and
\* whether it raised (in which case the caller receives no list).
scan_opportunities(symbols, cache, fees_cache, cfg, t) ==
    ScanSymbols([opportunities |-> <<>>, calc_calls |-> <<>>, raised |-> FALSE,
                 dispatched |-> <<>>, callback_errors |-> 0],
                cache, fees_cache, cfg, symbols, 1, t)

\* ------------------------------------------------------------------------
\* Symbol discovery
\* ------------------------------------------------------------------------

\* The symbols that occur in the model, and what the string tests of the
\* filter answer for each of them.
SymbolUniverse ==
    {"BTC/USDT", "ETH/USDT", "XRP/USDT", "LINK/USDT", "ABC/BTC",
     "BTCUP/USDT", "BTC/EUR", "BTCUSDT"}

\* symbols in an exchange's own form
NativeSymbols ==
    {"BTCUSDT", "ETHUSDT", "ETHBTC", "BTCUSDC"}

\* '/' in symbol
HasSlash(symbol) ==
    symbol \notin NativeSymbols

\* quote in ['USDT', 'BTC', 'ETH'] for base, quote = symbol.split('/')
MajorQuote(symbol) ==
    symbol \in {"BTC/USDT", "ETH/USDT", "XRP/USDT", "LINK/USDT", "ABC/BTC", "BTCUP/USDT"}

\* any(x in symbol for x in ['3L', '3S', 'UP', 'DOWN', 'BULL', 'BEAR'])
Leveraged(symbol) ==
    symbol = "BTCUP/USDT"

\* those of major_pairs that are in the universe
major_pairs ==
    {"BTC/USDT", "ETH/USDT", "XRP/USDT"}

FallbackSymbols ==
    <<"BTC/USDT", "ETH/USDT">>

PassesFilter(entry) ==
    /\ entry.status = "TRADING"
    /\ HasSlash(entry.symbol)
    /\ MajorQuote(entry.symbol)
    /\ ~Leveraged(entry.symbol)

Range(seq) ==
    {seq[k] : k \in 1..Len(seq)}

\* filtered_symbols of one exchange-info response
FilteredSymbols(response) ==
    LET keep(entry) == PassesFilter(entry)
        kept == SelectSeq(response.symbols, keep)
    IN  [k \in 1..Len(kept) |-> kept[k].symbol]

\* An exchange contributes to all_symbols when its call returned a dict.
Contributes(response) ==
    response.kind = "dict"

\* exchange_counts keeps insertion order: the symbols in the order in which
\* the exchanges, taken in order, first listed them.
RECURSIVE CountedOrder(_, _, _, _)
CountedOrder(exchange_names, info, k, acc) ==
    IF k > Len(exchange_names) THEN acc
    ELSE LET response == info[exchange_names[k]]
             fresh(sym) == sym \notin Range(acc)
         IN  IF Contributes(response)
             THEN CountedOrder(exchange_names, info, k + 1,
                               acc \o SelectSeq(FilteredSymbols(response), fresh))
             ELSE CountedOrder(exchange_names, info, k + 1, acc)

\* The orders in which a Python set may be iterated.
Orderings(S) ==
    {seq \in [1..Cardinality(S) -> S] : Range(seq) = S}

\* seq[:n]
TopN(seq, n) ==
    SubSeq(seq, 1, IF Len(seq) < n THEN Len(seq) ELSE n)

\* the [:20] limit on discovered symbols
MaxDiscovered ==
    20

\* The possible results of _discover_tradable_symbols: raised = TRUE is the
\* UnboundLocalError of reading symbols_on_multiple, which is assigned only
\* when more than one exchange contributed.
discover_tradable_symbols(exchange_names, info) ==
    LET contributing == {e \in Range(exchange_names) : Contributes(info[e])}
        all_symbols == [e \in contributing |-> Range(FilteredSymbols(info[e]))]
        exchange_count(sym) == Cardinality({e \in contributing : sym \in all_symbols[e]})
        common_symbols == {sym \in SymbolUniverse : \A e \in contributing : sym \in all_symbols[e]}
        counted == CountedOrder(exchange_names, info, 1, <<>>)
        on_multiple(sym) == exchange_count(sym) >= 2
        symbols_on_multiple == SelectSeq(counted, on_multiple)
        limited_symbols == common_symbols \cap major_pairs
    IN  IF contributing = {}
        THEN {[raised |-> FALSE, target_symbols |-> FallbackSymbols]}
        ELSE IF limited_symbols # {}
        THEN {[raised |-> FALSE, target_symbols |-> seq] : seq \in Orderings(limited_symbols)}
        ELSE IF common_symbols # {}
        THEN {[raised |-> FALSE, target_symbols |-> TopN(seq, MaxDiscovered)] :
                  seq \in Orderings(common_symbols)}
        ELSE IF Cardinality(contributing) = 1
        THEN {[raised |-> TRUE, target_symbols |-> <<>>]}
        ELSE IF Len(symbols_on_multiple) > 0
        THEN {[raised |-> FALSE, target_symbols |-> TopN(symbols_on_multiple, MaxDiscovered)]}
        ELSE {[raised |-> FALSE, target_symbols |-> FallbackSymbols]}

\* ------------------------------------------------------------------------
\* State
\* ------------------------------------------------------------------------
VARIABLES
    exchanges,              \* names of self.exchanges, in dict order
    initial_capital,        \* self.initial_capital
    min_profit_percentage,  \* self.min_profit_percentage
    max_slippage,           \* self.max_slippage
    target_symbols,         \* self.target_symbols
    order_books_cache,      \* self.order_books_cache
    trading_fees_cache,     \* self.trading_fees_cache
    failed_symbols,         \* self.failed_symbols
    last_fee_update,        \* self.last_fee_update
    opportunities_found,    \* self.opportunities_found
    now,                    \* time.time()
    pc,                     \* where start() (or the caller of one operation) is
    tasks,                  \* the refresh tasks handed to asyncio.gather
    raised_pairs,           \* history: pairs whose order-book fetch has raised
    opportunities,          \* the list returned by the last scan_opportunities
    calc_calls,             \* the calls the last scan made to the calculator
    calc_result,            \* the result of the last direct calculator call
    exchange_info,          \* what each connector's get_exchange_info gives
    error,                  \* the exception that escaped, "none" if none did
    discover_calls,         \* history: calls of _discover_tradable_symbols so far
    opportunity_callback,   \* self.opportunity_callback: the kind of callable set
    callback_tasks,         \* the tasks made by asyncio.create_task for the callback
    callback_errors,        \* the "Error in opportunity callback" lines of the log
    session,                \* each connector's self.session: "None" or "open"
    sessions_opened,        \* history: the aiohttp.ClientSession() each connector made
    sessions_closed,        \* history: the session.close() each connector awaited
    credentials,            \* the connector under test has api_key and api_secret
    scope,                  \* where the user of `async with connector` is
    request_log,            \* history: the calls of _make_request and what they did
    fees_result,            \* the last call of get_trading_fees and its result
    last_request_time,      \* self.last_request_time of the connector under test
    workers,                \* max_workers of the event loop's default executor
    issued,                 \* history: the requests started on the connector so far
    waiting,                \* requests that wait for a permit or for a worker
    sleeping,               \* requests asleep in _handle_rate_limit, by wake time
    in_flight,              \* requests sent and not yet answered
    last_sent,              \* history: when the latest request was sent
    min_gap,                \* history: the smallest time between consecutive sends
    slippage_book,          \* the order book handed to estimate_slippage
    slippage_side,          \* the side handed to estimate_slippage
    slippage_calls,         \* history: the amounts estimate_slippage was called with, and its results
    raw_exchange,           \* the exchange whose normalizer is called
    raw_endpoint,           \* the normalizer method called
    raw_response,           \* the raw response handed to the normalizer
    normalized,             \* what the latest normalizer call gave
    normalized_first,       \* history: what the first normalizer call gave
    normalize_count         \* history: the calls made on raw_response

vars ==
    <<exchanges, initial_capital, min_profit_percentage, max_slippage,
      target_symbols, order_books_cache, trading_fees_cache, failed_symbols,
      last_fee_update, opportunities_found, now, pc, tasks, raised_pairs,
      opportunities, calc_calls, calc_result, exchange_info, error,
      discover_calls, opportunity_callback, callback_tasks, callback_errors,
      session, sessions_opened, sessions_closed,
      credentials, scope, request_log, fees_result,
      last_request_time, workers, issued, waiting, sleeping, in_flight,
      last_sent, min_gap, slippage_book, slippage_side, slippage_calls,
      raw_exchange, raw_endpoint, raw_response, normalized,
      normalized_first, normalize_count>>

config_vars ==
    <<exchanges, initial_capital, min_profit_percentage, max_slippage, exchange_info>>

market_vars ==
    <<order_books_cache, trading_fees_cache, failed_symbols>>

scan_vars ==
    <<opportunities, calc_calls, opportunities_found>>

callback_vars ==
    <<opportunity_callback, callback_tasks, callback_errors>>

\* the state of the connectors
\* the state of the use of one connector on its own
request_vars ==
    <<credentials, scope, request_log, fees_result>>

throttle_vars ==
    <<last_request_time, workers, issued, waiting, sleeping, in_flight,
      last_sent, min_gap>>

normalize_vars ==
    <<raw_exchange, raw_endpoint, raw_response, normalized,
      normalized_first, normalize_count>>

call_vars ==
    <<slippage_book, slippage_side, slippage_calls, normalize_vars>>

conn_vars ==
    <<session, sessions_opened, sessions_closed, request_vars, throttle_vars,
      call_vars>>

Config ==
    [initial_capital |-> initial_capital,
     min_profit_percentage |-> min_profit_percentage,
     max_slippage |-> max_slippage,
     opportunity_callback |-> opportunity_callback]

\* ------------------------------------------------------------------------
\* Bounds and inputs
\* ------------------------------------------------------------------------
FeeTTL ==
    3600

\* granularity of the clock: a cycle lasts TimeStep or TimeStep + 1 seconds
TimeStep ==
    3600

StartTime ==
    4000

\* the loop is followed until the clock passes MaxTime
MaxTime ==
    7601

EmptyBook ==
    [bids |-> <<>>, asks |-> <<>>]

BookLow ==
    [bids |-> <<<<5, 4>>, <<4, 4>>>>, asks |-> <<<<6, 4>>, <<7, 4>>>>]

BookHigh ==
    [bids |-> <<<<8, 4>>, <<7, 4>>>>, asks |-> <<<<9, 4>>, <<10, 4>>>>]

BookNoBids ==
    [bids |-> <<>>, asks |-> <<<<6, 4>>, <<7, 4>>>>]

\* what a connector's get_order_book may return in the loop: a book with an
\* empty side, or one of two full books
LoopBooks ==
    {BookNoBids, BookLow, BookHigh}

Fee(maker, taker) ==
    [maker |-> maker, taker |-> taker]

NoFees ==
    [sym \in {} |-> Fee(RZero, RZero)]

DefaultFees ==
    [sym \in {"BTC/USDT", "ETH/USDT"} |-> Fee(DefaultFeeRate, DefaultFeeRate)]

\* what a connector's get_trading_fees may return in the loop
LoopFees ==
    {NoFees, DefaultFees}

Response(kind, symbols) ==
    [kind |-> kind, symbols |-> symbols]

Listing(symbol, status) ==
    [symbol |-> symbol, status |-> status]

\* ------------------------------------------------------------------------
\* Refresh: _update_market_data and its tasks
\* ------------------------------------------------------------------------
OrderBookTask(exchange, symbol) ==
    [kind |-> "order_book", exchange |-> exchange, symbol |-> symbol]

TradingFeesTask(exchange) ==
    [kind |-> "trading_fees", exchange |-> exchange, symbol |-> "*"]

Pending ==
    [state |-> "pending", ok |-> FALSE, book |-> EmptyBook, fees |-> NoFees]

\* mutant of SkipFailed: failed pairs are fetched again
SkipFailed_NeverSkips(failed, exchange, symbol) ==
    FALSE

\* the skip test on failed_symbols
SkipFailed(failed, exchange, symbol) ==
    exchange \in DOMAIN failed /\ symbol \in failed[exchange]

\* mutant of FeesDue: the age test is not strict
FeesDue_NotStrict(fees_cache, t, last) ==
    DOMAIN fees_cache = {} \/ t - last >= FeeTTL

\* not self.trading_fees_cache or time.time() - self.last_fee_update > 3600
FeesDue(fees_cache, t, last) ==
    DOMAIN fees_cache = {} \/ t - last > FeeTTL

\* the coroutines appended to tasks
LaunchedTasks(symbols, exchange_names, failed, fees_cache, t, last) ==
    {OrderBookTask(e, sym) : <<e, sym>> \in
        {p \in Range(exchange_names) \X Range(symbols) : ~SkipFailed(failed, p[1], p[2])}}
    \cup (IF FeesDue(fees_cache, t, last)
          THEN {TradingFeesTask(e) : e \in Range(exchange_names)}
          ELSE {})

\* mutant of AllSettled: the barrier opens when the first task settles
AllSettled_FirstCompleted(ts) ==
    DOMAIN ts = {} \/ \E t \in DOMAIN ts : ts[t].state # "pending"

\* asyncio.gather(*tasks, return_exceptions=True) returns once every task
\* has returned or raised
AllSettled(ts) ==
    \A t \in DOMAIN ts : ts[t].state # "pending"

\* mutant of CacheWrite: the symbol's dict is made anew at every write
CacheWrite_NewDict(cache, symbol, exchange, book, t) ==
    [sym \in DOMAIN cache \cup {symbol} |->
        IF sym = symbol
        THEN <<[exchange |-> exchange, data |-> book, timestamp |-> t]>>
        ELSE cache[sym]]

\* self.order_books_cache[symbol][exchange_name] = {'data': ..., 'timestamp': ...}
CacheWrite(cache, symbol, exchange, book, t) ==
    LET entry == [exchange |-> exchange, data |-> book, timestamp |-> t]
    IN  IF symbol \notin DOMAIN cache
        THEN [sym \in DOMAIN cache \cup {symbol} |->
                 IF sym = symbol THEN <<entry>> ELSE cache[sym]]
        ELSE IF HasExchange(cache[symbol], exchange)
        THEN [cache EXCEPT ![symbol] =
                 [k \in 1..Len(@) |-> IF @[k].exchange = exchange THEN entry ELSE @[k]]]
        ELSE [cache EXCEPT ![symbol] = Append(@, entry)]

\* mutant of MarkFailed: the exchange's set is created but the symbol not added
MarkFailed_NotAdded(failed, exchange, symbol) ==
    IF exchange \in DOMAIN failed
    THEN failed
    ELSE [e \in DOMAIN failed \cup {exchange} |->
             IF e = exchange THEN {} ELSE failed[e]]

\* mutant of MarkFailed: the failed symbols are rebuilt from the new failure
MarkFailed_Rebuilt(failed, exchange, symbol) ==
    [e \in {exchange} |-> {symbol}]

\* the except branch of _async_update_order_book
MarkFailed(failed, exchange, symbol) ==
    IF exchange \in DOMAIN failed
    THEN [failed EXCEPT ![exchange] = @ \cup {symbol}]
    ELSE [e \in DOMAIN failed \cup {exchange} |->
             IF e = exchange THEN {symbol} ELSE failed[e]]

\* self.trading_fees_cache[exchange_name] = fees
FeesWrite(fees_cache, exchange, fees) ==
    [e \in DOMAIN fees_cache \cup {exchange} |->
        IF e = exchange THEN fees ELSE fees_cache[e]]

\* mutant of StartCycle: the test of self.target_symbols is missing
StartCycle_AlwaysDiscovers ==
    /\ pc = "loop"
    /\ pc' = "discover"
    /\ UNCHANGED <<config_vars, market_vars, scan_vars, target_symbols, last_fee_update,
                   now, tasks, raised_pairs, calc_result, error,
                   discover_calls, callback_vars, conn_vars>>

\* start(): top of the while loop
StartCycle ==
    /\ pc = "loop"
    /\ pc' = IF target_symbols = <<>> THEN "discover" ELSE "update"
    /\ UNCHANGED <<config_vars, market_vars, scan_vars, target_symbols, last_fee_update,
                   now, tasks, raised_pairs, calc_result, error,
                   discover_calls, callback_vars, conn_vars>>

\* start(): await self._discover_tradable_symbols()
Discover ==
    /\ pc = "discover"
    /\ discover_calls' = discover_calls + 1
    /\ \E outcome \in discover_tradable_symbols(exchanges, exchange_info) :
          IF outcome.raised
          THEN /\ pc' = "raised"
               /\ error' = "UnboundLocalError"
               /\ UNCHANGED target_symbols
          ELSE /\ pc' = "update"
               /\ target_symbols' = outcome.target_symbols
               /\ UNCHANGED error
    /\ UNCHANGED <<config_vars, market_vars, scan_vars, last_fee_update,
                   now, tasks, raised_pairs, calc_result,
                   callback_vars, conn_vars>>

\* _update_market_data up to the call of asyncio.gather
UpdateLaunch ==
    /\ pc = "update"
    /\ tasks' = [t \in LaunchedTasks(target_symbols, exchanges, failed_symbols,
                                     trading_fees_cache, now, last_fee_update) |-> Pending]
    /\ last_fee_update' = IF FeesDue(trading_fees_cache, now, last_fee_update)
                          THEN now ELSE last_fee_update
    /\ pc' = "gather"
    /\ UNCHANGED <<config_vars, market_vars, scan_vars, target_symbols,
                   now, raised_pairs, calc_result, error,
                   discover_calls, callback_vars, conn_vars>>

\* _async_update_order_book after its connector call raised
OrderBookRaises(t) ==
    /\ t \in DOMAIN tasks /\ t.kind = "order_book" /\ tasks[t].state = "pending"
    /\ failed_symbols' = MarkFailed(failed_symbols, t.exchange, t.symbol)
    /\ raised_pairs' = raised_pairs \cup {<<t.exchange, t.symbol>>}
    /\ tasks' = [tasks EXCEPT ![t] = [@ EXCEPT !.state = "raised"]]
    /\ UNCHANGED <<config_vars, scan_vars, target_symbols, order_books_cache,
                   trading_fees_cache, last_fee_update, now, pc, calc_result, error,
                   discover_calls, callback_vars, conn_vars>>

\* mutant of OrderBookReturns: a book with an empty side counts as a failure
OrderBookReturns_EmptyFails(t) ==
    /\ t \in DOMAIN tasks /\ t.kind = "order_book" /\ tasks[t].state = "pending"
    /\ \E book \in LoopBooks :
          IF book.bids = <<>> \/ book.asks = <<>>
          THEN /\ tasks' = [tasks EXCEPT ![t] = [@ EXCEPT !.state = "returned", !.book = book]]
               /\ failed_symbols' = MarkFailed(failed_symbols, t.exchange, t.symbol)
               /\ UNCHANGED order_books_cache
          ELSE /\ order_books_cache' =
                      CacheWrite(order_books_cache, t.symbol, t.exchange, book, now)
               /\ tasks' = [tasks EXCEPT ![t] =
                      [@ EXCEPT !.state = "returned", !.ok = TRUE, !.book = book]]
               /\ UNCHANGED failed_symbols
    /\ UNCHANGED <<config_vars, scan_vars, target_symbols, trading_fees_cache,
                   last_fee_update, now, pc, raised_pairs,
                   calc_result, error,
                   discover_calls, callback_vars, conn_vars>>

\* mutant of OrderBookReturns: every returned book is cached
OrderBookReturns_CachesAll(t) ==
    /\ t \in DOMAIN tasks /\ t.kind = "order_book" /\ tasks[t].state = "pending"
    /\ \E book \in LoopBooks :
          /\ order_books_cache' =
                 CacheWrite(order_books_cache, t.symbol, t.exchange, book, now)
          /\ tasks' = [tasks EXCEPT ![t] =
                 [@ EXCEPT !.state = "returned", !.ok = TRUE, !.book = book]]
    /\ UNCHANGED <<config_vars, scan_vars, target_symbols, trading_fees_cache,
                   failed_symbols, last_fee_update, now, pc, raised_pairs,
                   calc_result, error,
                   discover_calls, callback_vars, conn_vars>>

\* _async_update_order_book after its connector call returned one of books
OrderBookAnswer(t, books) ==
    /\ t \in DOMAIN tasks /\ t.kind = "order_book" /\ tasks[t].state = "pending"
    /\ \E book \in books :
          IF book.bids = <<>> \/ book.asks = <<>>
          THEN /\ tasks' = [tasks EXCEPT ![t] = [@ EXCEPT !.state = "returned", !.book = book]]
               /\ UNCHANGED order_books_cache
          ELSE /\ order_books_cache' =
                      CacheWrite(order_books_cache, t.symbol, t.exchange, book, now)
               /\ tasks' = [tasks EXCEPT ![t] =
                      [@ EXCEPT !.state = "returned", !.ok = TRUE, !.book = book]]
    /\ UNCHANGED <<config_vars, scan_vars, target_symbols, trading_fees_cache,
                   failed_symbols, last_fee_update, now, pc, raised_pairs,
                   calc_result, error,
                   discover_calls, callback_vars, conn_vars>>

\* _async_update_order_book after its connector call returned a book
OrderBookReturns(t) ==
    OrderBookAnswer(t, LoopBooks)

\* mutant of TradingFeesRaises: the failed exchange's fees are forgotten
TradingFeesRaises_ForgetsFees(t) ==
    /\ t \in DOMAIN tasks /\ t.kind = "trading_fees" /\ tasks[t].state = "pending"
    /\ tasks' = [tasks EXCEPT ![t] = [@ EXCEPT !.state = "raised"]]
    /\ trading_fees_cache' =
           [e \in DOMAIN trading_fees_cache \ {t.exchange} |-> trading_fees_cache[e]]
    /\ UNCHANGED <<config_vars, scan_vars, target_symbols, order_books_cache,
                   failed_symbols, last_fee_update, now, pc, raised_pairs,
                   calc_result, error,
                   discover_calls, callback_vars, conn_vars>>

\* _async_update_trading_fees after its connector call raised
TradingFeesRaises(t) ==
    /\ t \in DOMAIN tasks /\ t.kind = "trading_fees" /\ tasks[t].state = "pending"
    /\ tasks' = [tasks EXCEPT ![t] = [@ EXCEPT !.state = "raised"]]
    /\ UNCHANGED <<config_vars, market_vars, scan_vars, target_symbols,
                   last_fee_update, now, pc, raised_pairs, calc_result, error,
                   discover_calls, callback_vars, conn_vars>>

\* _async_update_trading_fees after its connector call returned one of answers
TradingFeesAnswer(t, answers) ==
    /\ t \in DOMAIN tasks /\ t.kind = "trading_fees" /\ tasks[t].state = "pending"
    /\ \E fees \in answers :
          IF DOMAIN fees # {}
          THEN /\ trading_fees_cache' = FeesWrite(trading_fees_cache, t.exchange, fees)
               /\ tasks' = [tasks EXCEPT ![t] =
                      [@ EXCEPT !.state = "returned", !.ok = TRUE, !.fees = fees]]
          ELSE /\ tasks' = [tasks EXCEPT ![t] = [@ EXCEPT !.state = "returned"]]
               /\ UNCHANGED trading_fees_cache
    /\ UNCHANGED <<config_vars, scan_vars, target_symbols, order_books_cache,
                   failed_symbols, last_fee_update, now, pc, raised_pairs,
                   calc_result, error,
                   discover_calls, callback_vars, conn_vars>>

\* _async_update_trading_fees after its connector call returned
TradingFeesReturns(t) ==
    TradingFeesAnswer(t, LoopFees)

\* _update_market_data: asyncio.gather returns, the results are counted
GatherDone ==
    /\ pc = "gather"
    /\ AllSettled(tasks)
    /\ pc' = "scan"
    /\ UNCHANGED <<config_vars, market_vars, scan_vars, target_symbols, last_fee_update,
                   now, tasks, raised_pairs, calc_result, error,
                   discover_calls, callback_vars, conn_vars>>

\* The tasks asyncio.create_task made in one scan; none has run yet.
Spawned(dispatched) ==
    [k \in 1..Len(dispatched) |-> [opportunity |-> dispatched[k], state |-> "pending"]]

\* mutant of Scan: the scan empties the order-book cache it has read
Scan_EmptiesCache ==
    /\ pc = "scan"
    /\ \E r \in {scan_opportunities(target_symbols, order_books_cache,
                                     trading_fees_cache, Config, now)} :
           /\ calc_calls' = r.calc_calls
           /\ callback_tasks' = callback_tasks \o Spawned(r.dispatched)
           /\ callback_errors' = callback_errors + r.callback_errors
           /\ opportunities_found' = opportunities_found + Len(r.opportunities)
           /\ IF r.raised
              THEN /\ pc' = "raised"
                   /\ error' = "scan"
                   /\ opportunities' = <<>>
              ELSE /\ pc' = "sleep"
                   /\ opportunities' = r.opportunities
                   /\ UNCHANGED error
    /\ order_books_cache' = [sym \in {} |-> <<>>]
    /\ UNCHANGED <<config_vars, trading_fees_cache, failed_symbols, target_symbols, last_fee_update,
                   now, tasks, raised_pairs, calc_result,
                   discover_calls, opportunity_callback, conn_vars>>

\* start(): opportunities = await self.scan_opportunities()
Scan ==
    /\ pc = "scan"
    /\ \E r \in {scan_opportunities(target_symbols, order_books_cache,
                                     trading_fees_cache, Config, now)} :
           /\ calc_calls' = r.calc_calls
           /\ callback_tasks' = callback_tasks \o Spawned(r.dispatched)
           /\ callback_errors' = callback_errors + r.callback_errors
           /\ opportunities_found' = opportunities_found + Len(r.opportunities)
           /\ IF r.raised
              THEN /\ pc' = "raised"
                   /\ error' = "scan"
                   /\ opportunities' = <<>>
              ELSE /\ pc' = "sleep"
                   /\ opportunities' = r.opportunities
                   /\ UNCHANGED error
    /\ UNCHANGED <<config_vars, market_vars, target_symbols, last_fee_update,
                   now, tasks, raised_pairs, calc_result,
                   discover_calls, opportunity_callback, conn_vars>>

\* start(): the opportunities are logged, then asyncio.sleep(wait_time)
Sleep ==
    /\ pc = "sleep"
    /\ \E dt \in {TimeStep, TimeStep + 1} :
          /\ now + dt <= MaxTime
          /\ now' = now + dt
    /\ pc' = "loop"
    /\ UNCHANGED <<config_vars, market_vars, scan_vars, target_symbols, last_fee_update,
                   tasks, raised_pairs, calc_result, error,
                   discover_calls, callback_vars, conn_vars>>

\* A task of the callback runs while start() is suspended or has ended, and
\* its coroutine returns.
CallbackReturns(k) ==
    /\ pc \in {"gather", "sleep", "stopped", "raised"}
    /\ callback_tasks[k].state = "pending"
    /\ callback_tasks' = [callback_tasks EXCEPT ![k].state = "done"]
    /\ UNCHANGED <<config_vars, market_vars, scan_vars, target_symbols, last_fee_update,
                   now, pc, tasks, raised_pairs, calc_result, error,
                   discover_calls, opportunity_callback, callback_errors, conn_vars>>

\* A task of the callback runs and its coroutine raises: the exception is
\* stored in the task, which nothing awaits; the engine logs nothing.
CallbackRaises(k) ==
    /\ pc \in {"gather", "sleep", "stopped", "raised"}
    /\ callback_tasks[k].state = "pending"
    /\ callback_tasks' = [callback_tasks EXCEPT ![k].state = "failed"]
    /\ UNCHANGED <<config_vars, market_vars, scan_vars, target_symbols, last_fee_update,
                   now, pc, tasks, raised_pairs, calc_result, error,
                   discover_calls, opportunity_callback, callback_errors, conn_vars>>

\* The iterations of the two inner loops of scan_opportunities, in order:
\* <<symbol, i, j>> for every cached symbol of symbols[k..] and every i < j.
RECURSIVE ScanIterations(_, _, _)
ScanIterations(symbols, cache, k) ==
    IF k > Len(symbols) THEN <<>>
    ELSE IF symbols[k] \notin DOMAIN cache THEN ScanIterations(symbols, cache, k + 1)
    ELSE LET pairs == PairsFrom(1, 2, Len(cache[symbols[k]]))
         IN  [m \in 1..Len(pairs) |-> <<symbols[k], pairs[m][1], pairs[m][2]>>]
             \o ScanIterations(symbols, cache, k + 1)

\* scan_opportunities stopped after the first n of its iterations
RECURSIVE ScanFirst(_, _, _, _, _, _, _, _)
ScanFirst(acc, cache, fees_cache, cfg, iterations, m, n, t) ==
    IF m > n THEN acc
    ELSE ScanFirst(ScanPair(acc, cache, fees_cache, cfg, iterations[m][1],
                            cache[iterations[m][1]][iterations[m][2]],
                            cache[iterations[m][1]][iterations[m][3]], t),
                   cache, fees_cache, cfg, iterations, m + 1, n, t)

\* The exceptions by which an interrupt reaches the program: KeyboardInterrupt
\* raised in the code that is running, or the cancellation of the task of
\* main() (asyncio.run(main()) turns the interrupt signal into one), which
\* raises CancelledError at the await where the task is suspended.
InterruptKinds ==
    {"KeyboardInterrupt", "CancelledError"}

\* start(): `except KeyboardInterrupt` logs and returns; `except Exception`
\* does not match CancelledError, which is a BaseException.
Caught(kind) ==
    kind = "KeyboardInterrupt"

\* An interrupt while start() is at the top of the loop, in discovery, in
\* _update_market_data before the gather, or in the sleep.  CancelledError
\* is raised only at an await: in discovery and in the sleep.
InterruptStart(kind) ==
    /\ pc \in {"loop", "discover", "update", "sleep"}
    /\ kind = "CancelledError" => pc \in {"discover", "sleep"}
    /\ IF Caught(kind)
       THEN pc' = "stopped" /\ UNCHANGED error
       ELSE pc' = "raised" /\ error' = kind
    /\ UNCHANGED <<config_vars, market_vars, scan_vars, target_symbols, last_fee_update,
                   now, tasks, raised_pairs, calc_result,
                   discover_calls, callback_vars, conn_vars>>

\* An interrupt while start() awaits the gather.  KeyboardInterrupt is then
\* raised in a refresh task or in the event loop, not in start(): it leaves
\* the event loop, the run is torn down and start() is cancelled.  Either way
\* CancelledError is raised in start() at the gather.
InterruptGather(kind) ==
    /\ pc = "gather"
    /\ IF Caught("CancelledError")
       THEN pc' = "stopped" /\ UNCHANGED error
       ELSE pc' = "raised" /\ error' = "CancelledError"
    /\ UNCHANGED <<config_vars, market_vars, scan_vars, target_symbols, last_fee_update,
                   now, tasks, raised_pairs, calc_result,
                   discover_calls, callback_vars, conn_vars>>

\* KeyboardInterrupt raised in scan_opportunities after n of its iterations
\* (scan_opportunities has no await at which it is suspended, so
\* CancelledError cannot be raised in it): what the n iterations did stays.
InterruptScan(n) ==
    /\ pc = "scan"
    /\ n <= Len(ScanIterations(target_symbols, order_books_cache, 1))
    /\ \E r \in {ScanFirst([opportunities |-> <<>>, calc_calls |-> <<>>,
                            raised |-> FALSE, dispatched |-> <<>>,
                            callback_errors |-> 0],
                           order_books_cache, trading_fees_cache, Config,
                           ScanIterations(target_symbols, order_books_cache, 1),
                           1, n, now)} :
           /\ ~r.raised
           /\ calc_calls' = r.calc_calls
           /\ opportunities_found' = opportunities_found + Len(r.opportunities)
           /\ callback_tasks' = callback_tasks \o Spawned(r.dispatched)
           /\ callback_errors' = callback_errors + r.callback_errors
           /\ opportunities' = <<>>
    /\ IF Caught("KeyboardInterrupt")
       THEN pc' = "stopped" /\ UNCHANGED error
       ELSE pc' = "raised" /\ error' = "KeyboardInterrupt"
    /\ UNCHANGED <<config_vars, market_vars, target_symbols, last_fee_update,
                   now, tasks, raised_pairs, calc_result,
                   discover_calls, opportunity_callback, conn_vars>>

\* calc_result before any direct call of the calculator
NoCall ==
    [symbol |-> "", buy_exchange |-> "", sell_exchange |-> "", result |-> CalcZero]

NoTasks ==
    [t \in {} |-> Pending]

EmptyCache ==
    [sym \in {} |-> <<>>]

NoFailed ==
    [e \in {} |-> {}]

\* fees_result before any call of get_trading_fees
NoFeesCall ==
    [called |-> FALSE, symbol |-> "None", credentials |-> FALSE,
     raised |-> FALSE, fees |-> NoFees]

\* self.opportunity_callback = None: nothing is dispatched, nothing logged
NoCallback ==
    /\ opportunity_callback = "none"
    /\ callback_tasks = <<>>
    /\ callback_errors = 0

\* self.session = None of every connector
NoSessions ==
    /\ session = [e \in Range(exchanges) |-> "None"]
    /\ sessions_opened = [e \in Range(exchanges) |-> 0]
    /\ sessions_closed = [e \in Range(exchanges) |-> 0]
    /\ scope = "outside"
    /\ request_log = <<>>
    /\ fees_result = NoFeesCall

\* self.api_key = None, self.api_secret = None
NoCredentials ==
    credentials = FALSE

\* no sleeper for any wake time
NoSleepers ==
    [t \in {} |-> 0]

\* self.last_request_time = 0, and no request made yet
NoRequests ==
    /\ last_request_time = 0
    /\ workers = 0
    /\ issued = 0
    /\ waiting = 0
    /\ sleeping = NoSleepers
    /\ in_flight = 0
    /\ last_sent = -1
    /\ min_gap = -1

\* a JSON object without any key
EmptyDict ==
    [k \in {} |-> ""]

\* a normalizer call that has not been made
NotNormalized ==
    [called |-> FALSE, raised |-> FALSE, result |-> EmptyDict]

\* no normalizer called yet
NoNormalized ==
    /\ raw_exchange = "BINANCE"
    /\ raw_endpoint = "order_book"
    /\ raw_response = EmptyDict
    /\ normalized = NotNormalized
    /\ normalized_first = NotNormalized
    /\ normalize_count = 0

\* no direct call of a pure method made yet
NoCalls ==
    /\ slippage_book = EmptyBook
    /\ slippage_side = "buy"
    /\ slippage_calls = {}
    /\ NoNormalized

\* The engine as main() constructs it, before start()
Init ==
    /\ exchanges = <<"BINANCE", "KUCOIN">>
    /\ initial_capital = RInt(12)
    /\ min_profit_percentage = <<1, 2>>
    /\ max_slippage = <<1, 2>>
    /\ target_symbols \in {<<>>, <<"BTC/USDT">>}
    /\ order_books_cache = EmptyCache
    /\ trading_fees_cache = [e \in {} |-> NoFees]
    /\ failed_symbols = NoFailed
    /\ last_fee_update = 0
    /\ opportunities_found = 0
    /\ now = StartTime
    /\ pc = "loop"
    /\ tasks = NoTasks
    /\ raised_pairs = {}
    /\ opportunities = <<>>
    /\ calc_calls = <<>>
    /\ calc_result = NoCall
    /\ exchange_info \in
           {[e \in {"BINANCE", "KUCOIN"} |-> IF e = "BINANCE" THEN first ELSE second] :
               first \in {Response("dict", <<Listing("BTC/USDT", "TRADING")>>),
                          Response("dict", <<>>)},
               second \in {Response("raise", <<>>), Response("nondict", <<>>)}}
    /\ error = "none"
    /\ discover_calls = 0
    /\ NoCallback
    /\ NoSessions
    /\ NoCredentials
    /\ NoRequests
    /\ NoCalls

Next ==
    \/ StartCycle
    \/ Discover
    \/ UpdateLaunch
    \/ \E t \in DOMAIN tasks : OrderBookRaises(t)
    \/ \E t \in DOMAIN tasks : OrderBookReturns(t)
    \/ \E t \in DOMAIN tasks : TradingFeesRaises(t)
    \/ \E t \in DOMAIN tasks : TradingFeesReturns(t)
    \/ GatherDone
    \/ Scan
    \/ Sleep

Spec ==
    Init /\ [][Next]_vars

\* ------------------------------------------------------------------------
\* The scan loop with a registered opportunity callback and an interrupt
\* from outside (main(): engine.opportunity_callback = ..., engine.start())
\* ------------------------------------------------------------------------

\* The class of the connector main() stores under a name; "MOCK" is the
\* subclass of BaseExchange the tests of the base class use, which keeps
\* the methods of BaseExchange.
ConnectorClass(e) ==
    CASE e = "BINANCE" -> "BinanceExchange"
      [] e = "KUCOIN" -> "KucoinExchange"
      [] e = "MOCK" -> "BaseExchange"
      [] OTHER -> "CcxtExchange"

\* The classes that have a close() method: neither BaseExchange nor
\* ExchangeInterface nor a connector defines one.
ClassesWithClose ==
    {}

\* BaseExchange.initialize: if not self.session: self.session = ClientSession()
Opened(sess, e) ==
    IF sess[e] = "None" THEN [sess EXCEPT ![e] = "open"] ELSE sess

OpenedCount(sess, count, e) ==
    IF sess[e] = "None" THEN [count EXCEPT ![e] = @ + 1] ELSE count

\* main(): await asyncio.gather(*[ex.initialize() for ex in exchanges.values()])
MainInitialize ==
    /\ pc = "main"
    /\ session' = [e \in Range(exchanges) |-> Opened(session, e)[e]]
    /\ sessions_opened' = [e \in Range(exchanges) |-> OpenedCount(session, sessions_opened, e)[e]]
    /\ pc' = "loop"
    /\ UNCHANGED <<config_vars, market_vars, scan_vars, target_symbols, last_fee_update,
                   now, tasks, raised_pairs, calc_result, error,
                   discover_calls, callback_vars, sessions_closed, request_vars, throttle_vars, call_vars>>

\* main(): finally: asyncio.gather(*(ex.close() for ex in exchanges.values()),
\* return_exceptions=True), after start() has returned or raised.  The
\* argument list is built before gather is called: the first connector
\* without a close attribute raises AttributeError there, and no session
\* is closed.
MainShutdown ==
    /\ pc \in {"stopped", "raised"}
    /\ IF \A e \in Range(exchanges) : ConnectorClass(e) \in ClassesWithClose
       THEN /\ session' = [e \in Range(exchanges) |-> "None"]
            /\ sessions_closed' =
                   [e \in Range(exchanges) |->
                       IF session[e] = "open" THEN sessions_closed[e] + 1
                       ELSE sessions_closed[e]]
            /\ UNCHANGED error
       ELSE /\ error' = "AttributeError"
            /\ UNCHANGED <<session, sessions_closed>>
    /\ pc' = "exited"
    /\ UNCHANGED <<config_vars, market_vars, scan_vars, target_symbols, last_fee_update,
                   now, tasks, raised_pairs, calc_result,
                   discover_calls, callback_vars, sessions_opened, request_vars, throttle_vars, call_vars>>

\* The callables that can be registered: none, a coroutine function (as
\* main() registers), a plain function that raises.
CallbackKinds ==
    {"none", "async", "sync_raises"}

InitRun ==
    /\ exchanges = <<"BINANCE", "KUCOIN">>
    /\ initial_capital = RInt(12)
    /\ min_profit_percentage = <<1, 2>>
    /\ max_slippage = <<1, 2>>
    /\ target_symbols = <<>>
    /\ order_books_cache = EmptyCache
    /\ trading_fees_cache = [e \in {} |-> NoFees]
    /\ failed_symbols = NoFailed
    /\ last_fee_update = 0
    /\ opportunities_found = 0
    /\ now = StartTime
    /\ pc = "main"
    /\ tasks = NoTasks
    /\ raised_pairs = {}
    /\ opportunities = <<>>
    /\ calc_calls = <<>>
    /\ calc_result = NoCall
    /\ exchange_info =
           [e \in {"BINANCE", "KUCOIN"} |->
               IF e = "BINANCE" THEN Response("dict", <<Listing("BTC/USDT", "TRADING")>>)
               ELSE Response("raise", <<>>)]
    /\ error = "none"
    /\ discover_calls = 0
    /\ opportunity_callback \in CallbackKinds
    /\ callback_tasks = <<>>
    /\ callback_errors = 0
    /\ NoSessions
    /\ NoCredentials
    /\ NoRequests
    /\ NoCalls

NextRun ==
    \/ MainInitialize
    \/ Next
    \/ \E kind \in InterruptKinds : InterruptStart(kind)
    \/ \E kind \in InterruptKinds : InterruptGather(kind)
    \/ \E n \in 0..3 : InterruptScan(n)
    \/ \E k \in DOMAIN callback_tasks : CallbackReturns(k)
    \/ \E k \in DOMAIN callback_tasks : CallbackRaises(k)
    \/ MainShutdown

SpecRun ==
    InitRun /\ [][NextRun]_vars

\* ------------------------------------------------------------------------
\* Properties of the scan loop
\* ------------------------------------------------------------------------
FailedPairs ==
    {p \in Range(exchanges) \X SymbolUniverse :
        p[1] \in DOMAIN failed_symbols /\ p[2] \in failed_symbols[p[1]]}

Settled(t) ==
    tasks[t].state \in {"returned", "raised"}

\* C1: in every cycle the scan starts only after every order-book and fee
\* task launched by that cycle's refresh has returned or raised, and from
\* the start of the scan to the end of the cycle no step writes the
\* order-book cache, the fee cache or the failed-symbol sets.
C1_ScanAfterBarrier ==
    [][/\ pc' \in {"scan", "sleep"} => \A t \in DOMAIN tasks' : tasks'[t].state \in {"returned", "raised"}
       /\ pc \in {"scan", "sleep"} => UNCHANGED market_vars]_vars

\* a scan is about to run on a cycle in which one fetch raised and another
\* returned a book that was cached
C1_Witness ==
    /\ pc = "scan"
    /\ \E t \in DOMAIN tasks : tasks[t].state = "raised"
    /\ \E t \in DOMAIN tasks : tasks[t].state = "returned" /\ tasks[t].ok

\* C2: once the order-book fetch of a pair (exchange, symbol) has raised,
\* no order-book task for that pair is ever launched again: no pending
\* order-book task belongs to a pair whose fetch has raised.
C2_FailedNeverRefetched ==
    \A t \in DOMAIN tasks :
        (t.kind = "order_book" /\ tasks[t].state = "pending")
            => <<t.exchange, t.symbol>> \notin raised_pairs

\* a later cycle has launched the fetch of one pair and left out the pair
\* whose fetch raised in an earlier cycle
C2_Witness ==
    /\ pc = "gather"
    /\ now > StartTime
    /\ \E p \in raised_pairs : OrderBookTask(p[1], p[2]) \notin DOMAIN tasks
    /\ \E t \in DOMAIN tasks : t.kind = "order_book" /\ tasks[t].state = "pending"

\* C3: a step in which the order-book fetch of one pair raises adds exactly
\* that pair to failed_symbols, leaves the loop where it is (nothing
\* escapes), and changes neither the cache nor any other task; and when the
\* barrier has been passed every pair whose fetch returned a book with bids
\* and asks in this cycle holds that book in the cache.
C3_FailureIsolated ==
    [][/\ \A t \in DOMAIN tasks :
             (/\ t.kind = "order_book"
              /\ tasks[t].state = "pending"
              /\ t \in DOMAIN tasks'
              /\ tasks'[t].state = "raised")
             => /\ FailedPairs' = FailedPairs \cup {<<t.exchange, t.symbol>>}
                /\ pc' = pc
                /\ error' = error
                /\ order_books_cache' = order_books_cache
                /\ \A u \in DOMAIN tasks \ {t} : u \in DOMAIN tasks' /\ tasks'[u] = tasks[u]
       /\ pc' = "scan" =>
             \A t \in DOMAIN tasks' :
                 (/\ t.kind = "order_book"
                  /\ tasks'[t].state = "returned"
                  /\ tasks'[t].book.bids # <<>>
                  /\ tasks'[t].book.asks # <<>>)
                 => /\ t.symbol \in DOMAIN order_books_cache'
                    /\ HasExchange(order_books_cache'[t.symbol], t.exchange)
                    /\ EntryOf(order_books_cache'[t.symbol], t.exchange).data = tasks'[t].book]_vars

\* the barrier has been passed in a cycle where the fetch of one pair raised
\* and the book fetched for another pair of the same symbol is in the cache
C3_Witness ==
    /\ pc = "scan"
    /\ \E t, u \in DOMAIN tasks :
          /\ t.kind = "order_book" /\ tasks[t].state = "raised"
          /\ <<t.exchange, t.symbol>> \in FailedPairs
          /\ u.kind = "order_book" /\ tasks[u].state = "returned" /\ tasks[u].ok
          /\ u.symbol = t.symbol
          /\ EntryOf(order_books_cache[u.symbol], u.exchange).data = tasks[u].book

\* C4 as stated: at the launch of a refresh, the fees of an exchange are
\* fetched if and only if that exchange is absent from the fee cache or the
\* last fee refresh is more than 3600 s old.
C4_PerExchangeRefetch ==
    [][(pc = "update" /\ pc' = "gather") =>
          \A e \in Range(exchanges) :
              (TradingFeesTask(e) \in DOMAIN tasks')
                  <=> (e \notin DOMAIN trading_fees_cache \/ now - last_fee_update > 3600)]_vars

\* C4 amended: at the launch of a refresh, the fees of every exchange are
\* fetched if and only if the fee cache holds no exchange at all or the last
\* launch of a fee refresh is more than 3600 s old; the fetch is then
\* launched for all exchanges and the launch time recorded.
C4_WholeCacheRefetch ==
    [][(pc = "update" /\ pc' = "gather") =>
          /\ \A e \in Range(exchanges) :
                (TradingFeesTask(e) \in DOMAIN tasks')
                    <=> (DOMAIN trading_fees_cache = {} \/ now - last_fee_update > 3600)
          /\ last_fee_update' =
                IF DOMAIN trading_fees_cache = {} \/ now - last_fee_update > 3600
                THEN now ELSE last_fee_update]_vars

\* a refresh has been launched without fee tasks while one exchange has
\* fees cached and another has none
C4_Witness ==
    /\ pc = "gather"
    /\ \A e \in Range(exchanges) : TradingFeesTask(e) \notin DOMAIN tasks
    /\ \E e \in Range(exchanges) : e \in DOMAIN trading_fees_cache
    /\ \E e \in Range(exchanges) : e \notin DOMAIN trading_fees_cache

\* C11: over the lifetime of the scan loop _discover_tradable_symbols is
\* called at most once, a call happens only while target_symbols is empty,
\* and a cycle that starts after a discovery goes directly to the refresh.
C11_DiscoverAtMostOnce ==
    /\ [](discover_calls <= 1)
    /\ [][/\ discover_calls' # discover_calls => target_symbols = <<>>
          /\ (pc = "loop" /\ discover_calls >= 1 /\ pc' # pc) => pc' = "update"]_vars

\* a second cycle goes to the refresh after the first cycle discovered
C11_Witness ==
    /\ discover_calls = 1
    /\ now > StartTime
    /\ pc = "update"

\* C25: scan_opportunities, and calculate_potential_profit which it calls,
\* leave order_books_cache, trading_fees_cache and failed_symbols as they
\* are; the three change only while the refresh tasks run.
C25_ScanReadsOnly ==
    [][/\ pc = "scan" => UNCHANGED market_vars
       /\ market_vars' # market_vars => pc = "gather"]_vars

\* a scan that found an opportunity in a cache the refresh had filled, with
\* a failed pair recorded
C25_Witness ==
    /\ pc = "sleep"
    /\ opportunities # <<>>
    /\ calc_calls # <<>>
    /\ FailedPairs # {}

\* C26: a symbol once in failed_symbols[exchange] stays there: no step of
\* the engine, in this cycle or a later one, removes it.
C26_FailedSymbolsGrow ==
    [][FailedPairs \subseteq FailedPairs']_vars

\* the pair has failed on both exchanges and a later cycle is being refreshed
C26_Witness ==
    /\ Cardinality(FailedPairs) = 2
    /\ now > StartTime
    /\ pc = "gather"

\* the keys (symbol, exchange) of a cache
CacheKeys(cache) ==
    {key \in (DOMAIN cache) \X Range(exchanges) : HasExchange(cache[key[1]], key[2])}

\* the entry a cache holds for a key
CacheEntry(cache, key) ==
    EntryOf(cache[key[1]], key[2])

\* C27: a key (symbol, exchange) once in the order-book cache stays in it,
\* and its entry holds the book of the latest successful refresh of the key:
\* the entry changes only when a refresh of the key returns a book, to that
\* book.
C27_CacheEntriesPersist ==
    /\ [][\A key \in CacheKeys(order_books_cache) :
             /\ key \in CacheKeys(order_books_cache')
             /\ CacheEntry(order_books_cache', key) # CacheEntry(order_books_cache, key) =>
                    /\ tasks'[OrderBookTask(key[2], key[1])].ok
                    /\ ~tasks[OrderBookTask(key[2], key[1])].ok
                    /\ CacheEntry(order_books_cache', key).data =
                           tasks'[OrderBookTask(key[2], key[1])].book]_vars
    /\ [](\A t \in DOMAIN tasks :
             (t.kind = "order_book" /\ tasks[t].ok) =>
                 /\ <<t.symbol, t.exchange>> \in CacheKeys(order_books_cache)
                 /\ CacheEntry(order_books_cache, <<t.symbol, t.exchange>>).data = tasks[t].book)

\* in a later cycle one key was refreshed again and the other still holds
\* the book of the first cycle
C27_Witness ==
    /\ now > StartTime
    /\ \E key1 \in CacheKeys(order_books_cache), key2 \in CacheKeys(order_books_cache) :
          /\ CacheEntry(order_books_cache, key1).timestamp = StartTime
          /\ CacheEntry(order_books_cache, key2).timestamp > StartTime
          /\ CacheEntry(order_books_cache, key2).data # CacheEntry(order_books_cache, key1).data

\* the refresh task t returned a book with empty bids or empty asks
ReturnedEmpty(ts, t) ==
    /\ t \in DOMAIN ts
    /\ t.kind = "order_book"
    /\ ts[t].state = "returned"
    /\ ts[t].book.bids = <<>> \/ ts[t].book.asks = <<>>

\* C28: a fetch that returns a book with empty bids or empty asks is no
\* error: the pair is not added to failed_symbols, the cache is neither
\* given an entry nor overwritten, and the next cycle fetches the pair again.
C28_EmptyBookIsNoError ==
    [][/\ \A t \in DOMAIN tasks :
             (tasks[t].state = "pending" /\ ReturnedEmpty(tasks', t)) =>
                 /\ failed_symbols' = failed_symbols
                 /\ order_books_cache' = order_books_cache
                 /\ ~tasks'[t].ok
       /\ (pc = "update" /\ pc' = "gather") =>
             \A t \in DOMAIN tasks :
                 ReturnedEmpty(tasks, t) => (t \in DOMAIN tasks' /\ tasks'[t].state = "pending")]_vars

\* in a later cycle the fetch of a pair returned a one-sided book, and the
\* cache still holds the pair's book of the first cycle
C28_Witness ==
    /\ now > StartTime
    /\ FailedPairs = {}
    /\ \E t \in DOMAIN tasks :
          /\ ReturnedEmpty(tasks, t)
          /\ tasks[t].book = BookNoBids
          /\ <<t.symbol, t.exchange>> \in CacheKeys(order_books_cache)
          /\ CacheEntry(order_books_cache, <<t.symbol, t.exchange>>).timestamp = StartTime

\* ------------------------------------------------------------------------
\* One connector used on its own: the scope of `async with`, initialize(),
\* _make_request and get_trading_fees of each connector class
\* ------------------------------------------------------------------------

\* the connector under test
Connector ==
    exchanges[1]

MaxRequests ==
    2

MaxSessions ==
    2

\* mutant of AExit: the session is closed but not reset to None
AExit_NotReset(sess, closed, e) ==
    IF sess[e] = "open"
    THEN [session |-> sess, sessions_closed |-> [closed EXCEPT ![e] = @ + 1]]
    ELSE [session |-> sess, sessions_closed |-> closed]

\* BaseExchange.__aexit__: if self.session: await self.session.close();
\* self.session = None
AExit(sess, closed, e) ==
    IF sess[e] = "open"
    THEN [session |-> [sess EXCEPT ![e] = "None"],
          sessions_closed |-> [closed EXCEPT ![e] = @ + 1]]
    ELSE [session |-> sess, sessions_closed |-> closed]

\* api_key / api_secret read from the environment when they are not set
FromEnvironment(creds) ==
    IF creds THEN {TRUE} ELSE {TRUE, FALSE}

\* async with connector: BaseExchange.__aenter__
ScopeEnter ==
    /\ pc = "idle"
    /\ scope # "inside"
    /\ sessions_opened[Connector] < MaxSessions
    /\ session' = Opened(session, Connector)
    /\ sessions_opened' = OpenedCount(session, sessions_opened, Connector)
    /\ credentials' \in FromEnvironment(credentials)
    /\ scope' = "inside"
    /\ UNCHANGED <<config_vars, market_vars, scan_vars, target_symbols, last_fee_update,
                   throttle_vars, call_vars,
                   now, pc, tasks, raised_pairs, calc_result, error,
                   discover_calls, callback_vars, sessions_closed,
                   request_log, fees_result>>

\* the body of the `async with` ends or raises: BaseExchange.__aexit__ runs
\* on both paths and returns None, so an exception of the body goes on
ScopeExit(raising) ==
    /\ pc = "idle"
    /\ scope = "inside"
    /\ session' = AExit(session, sessions_closed, Connector).session
    /\ sessions_closed' = AExit(session, sessions_closed, Connector).sessions_closed
    /\ scope' = IF raising THEN "exited_raising" ELSE "exited"
    /\ UNCHANGED <<config_vars, market_vars, scan_vars, target_symbols, last_fee_update,
                   throttle_vars, call_vars,
                   now, pc, tasks, raised_pairs, calc_result, error,
                   discover_calls, callback_vars, sessions_opened,
                   credentials, request_log, fees_result>>

\* await connector.initialize(api_key, api_secret), inside or outside a scope
Initialize(given) ==
    /\ pc = "idle"
    /\ sessions_opened[Connector] < MaxSessions
    /\ credentials' \in (IF given THEN {TRUE} ELSE {TRUE, FALSE})
    /\ session' = Opened(session, Connector)
    /\ sessions_opened' = OpenedCount(session, sessions_opened, Connector)
    /\ UNCHANGED <<config_vars, market_vars, scan_vars, target_symbols, last_fee_update,
                   throttle_vars, call_vars,
                   now, pc, tasks, raised_pairs, calc_result, error,
                   discover_calls, callback_vars, sessions_closed,
                   scope, request_log, fees_result>>

\* What a request that was sent can end in: a response, or an exception of
\* the transport.
SentOutcomes ==
    {"response", "transport error"}

\* _make_request of each class, as a set of [outcome, io]: io tells whether
\* the request went to the network.  BaseExchange tests self.session first;
\* BinanceExchange and KucoinExchange override it with requests.request and
\* no test of the session; CcxtExchange overrides it to raise.
make_request(class, sess) ==
    CASE class = "BaseExchange" ->
             IF sess = "None"
             THEN {[outcome |-> "RuntimeError: Session not initialized", io |-> FALSE]}
             ELSE {[outcome |-> o, io |-> TRUE] : o \in SentOutcomes}
      [] class \in {"BinanceExchange", "KucoinExchange"} ->
             {[outcome |-> o, io |-> TRUE] : o \in SentOutcomes}
      [] OTHER ->
             {[outcome |-> "NotImplementedError", io |-> FALSE]}

\* connector._make_request(method, endpoint)
MakeRequest ==
    /\ pc = "idle"
    /\ Len(request_log) < MaxRequests
    /\ \E r \in make_request(ConnectorClass(Connector), session[Connector]) :
          request_log' = Append(request_log,
                                [session |-> session[Connector],
                                 outcome |-> r.outcome, io |-> r.io])
    /\ UNCHANGED <<config_vars, market_vars, scan_vars, target_symbols, last_fee_update,
                   throttle_vars, call_vars,
                   now, pc, tasks, raised_pairs, calc_result, error,
                   discover_calls, callback_vars, session, sessions_opened,
                   sessions_closed, credentials, scope, fees_result>>

\* default_fee = {"maker": 0.001, "taker": 0.001};
\* {symbol: default_fee} if symbol else {"BTC/USDT": ..., "ETH/USDT": ...}
DefaultsFor(symbol) ==
    IF symbol = "None" THEN DefaultFees
    ELSE [sym \in {symbol} |-> Fee(DefaultFeeRate, DefaultFeeRate)]

\* a fee map built from what the exchange answered
ExchangeFees(symbol) ==
    IF symbol = "None" THEN [sym \in {"BTC/USDT", "XRP/USDT"} |-> Fee(<<1, 500>>, <<1, 500>>)]
    ELSE [sym \in {symbol} |-> Fee(<<1, 500>>, <<1, 500>>)]

\* get_trading_fees of each class, as a set of [raised, fees].
\* KucoinExchange returns the defaults when a credential is missing, and
\* otherwise sends requests.  BinanceExchange sends the request whatever the
\* credentials are: an answer that is a list gives a map (empty for an empty
\* list), any other answer or a transport error raises.  CcxtExchange
\* returns what ccxt fetched or the market fees, and the defaults on any
\* exception.
get_trading_fees(class, creds, symbol) ==
    CASE class = "KucoinExchange" ->
             IF ~creds THEN {[raised |-> FALSE, fees |-> DefaultsFor(symbol)]}
             ELSE {[raised |-> TRUE, fees |-> NoFees],
                   [raised |-> FALSE, fees |-> NoFees],
                   [raised |-> FALSE, fees |-> ExchangeFees(symbol)]}
      [] class = "BinanceExchange" ->
             {[raised |-> TRUE, fees |-> NoFees],
              [raised |-> FALSE, fees |-> NoFees],
              [raised |-> FALSE, fees |-> ExchangeFees(symbol)]}
      [] OTHER ->
             {[raised |-> FALSE, fees |-> DefaultsFor(symbol)],
              [raised |-> FALSE, fees |-> NoFees],
              [raised |-> FALSE, fees |-> ExchangeFees(symbol)]}

\* connector.get_trading_fees(symbol); BaseExchange leaves it abstract
GetTradingFees(symbol) ==
    /\ pc = "idle"
    /\ ConnectorClass(Connector) # "BaseExchange"
    /\ \E r \in get_trading_fees(ConnectorClass(Connector), credentials, symbol) :
          fees_result' = [called |-> TRUE, symbol |-> symbol, credentials |-> credentials,
                          raised |-> r.raised, fees |-> r.fees]
    /\ UNCHANGED <<config_vars, market_vars, scan_vars, target_symbols, last_fee_update,
                   throttle_vars, call_vars,
                   now, pc, tasks, raised_pairs, calc_result, error,
                   discover_calls, callback_vars, session, sessions_opened,
                   sessions_closed, credentials, scope, request_log>>

\* A connector as its constructor leaves it: BinanceExchange() and the test
\* subclass have no credentials, KucoinExchange and CcxtExchange take them
\* as arguments.
InitConn ==
    /\ exchanges \in {<<"MOCK">>, <<"BINANCE">>, <<"KUCOIN">>, <<"OKX">>}
    /\ initial_capital = RInt(12)
    /\ min_profit_percentage = <<1, 2>>
    /\ max_slippage = <<1, 2>>
    /\ target_symbols = <<"BTC/USDT">>
    /\ order_books_cache = EmptyCache
    /\ trading_fees_cache = [e \in {} |-> NoFees]
    /\ failed_symbols = NoFailed
    /\ last_fee_update = 0
    /\ opportunities_found = 0
    /\ now = StartTime
    /\ pc = "idle"
    /\ tasks = NoTasks
    /\ raised_pairs = {}
    /\ opportunities = <<>>
    /\ calc_calls = <<>>
    /\ calc_result = NoCall
    /\ exchange_info = [e \in Range(exchanges) |-> Response("raise", <<>>)]
    /\ error = "none"
    /\ discover_calls = 0
    /\ NoCallback
    /\ NoSessions
    /\ NoRequests
    /\ NoCalls
    /\ credentials \in (IF Connector \in {"KUCOIN", "OKX"} THEN {TRUE, FALSE} ELSE {FALSE})

NextConn ==
    \/ ScopeEnter
    \/ \E raising \in BOOLEAN : ScopeExit(raising)
    \/ \E given \in BOOLEAN : Initialize(given)
    \/ MakeRequest
    \/ \E symbol \in {"None", "BTC/USDT", "XRP/USDT"} : GetTradingFees(symbol)

SpecConn ==
    InitConn /\ [][NextConn]_vars

\* C15: inside the scope of `async with` the connector holds an open
\* session, and whichever way the scope is left, by the end of the body or
\* by an exception, the session has been closed and is None.
C15_ScopedSessionReleased ==
    /\ [](scope = "inside" => session[Connector] = "open")
    /\ [][(scope = "inside" /\ scope' # "inside") =>
              /\ session'[Connector] = "None"
              /\ sessions_closed'[Connector] = sessions_opened'[Connector]]_vars

\* a scope left by an exception after a request was made inside it
C15_Witness ==
    /\ scope = "exited_raising"
    /\ request_log # <<>>
    /\ sessions_closed[Connector] = 1
    /\ session[Connector] = "None"

\* C17: a request made while the connector has no session fails with
\* RuntimeError "Session not initialized" and nothing goes to the network.
C17_NoSessionNoRequest ==
    \A k \in DOMAIN request_log :
        request_log[k].session = "None" =>
            /\ request_log[k].outcome = "RuntimeError: Session not initialized"
            /\ ~request_log[k].io

\* C20: get_trading_fees of a connector without credentials does not raise
\* and returns the default entries (maker 0.001, taker 0.001) for the
\* requested symbol, or for BTC/USDT and ETH/USDT when none is requested.
C20_DefaultFeesWithoutCredentials ==
    (fees_result.called /\ ~fees_result.credentials) =>
        /\ ~fees_result.raised
        /\ fees_result.fees # NoFees
        /\ \A sym \in (IF fees_result.symbol = "None" THEN {"BTC/USDT", "ETH/USDT"}
                        ELSE {fees_result.symbol}) :
               /\ sym \in DOMAIN fees_result.fees
               /\ fees_result.fees[sym] = Fee(DefaultFeeRate, DefaultFeeRate)

\* ------------------------------------------------------------------------
\* Concurrent requests on one connector: the permits of request_semaphore,
\* the throttle of _handle_rate_limit, and the executor the engine's
\* refresh tasks go through
\* ------------------------------------------------------------------------

\* self.request_semaphore = asyncio.Semaphore(10)
PermitCount ==
    10

\* self.rate_limit = kwargs.get('rate_limit', 1.0), in seconds
RateLimit ==
    1

\* requests started on the connector in one round: the order books of the
\* ten major pairs and the trading fees
MaxTasks ==
    11

\* seconds of clock the round may take
MaxClock ==
    2

\* processors of the machines considered
CpuCounts ==
    {4, 8}

\* run_in_executor(None, ...): the loop's default ThreadPoolExecutor has
\* min(32, cpu_count + 4) workers
ExecutorWorkers ==
    {IF cpu + 4 < 32 THEN cpu + 4 ELSE 32 : cpu \in CpuCounts}

\* when the sleep of _handle_rate_limit can end
WakeTimes ==
    (StartTime + RateLimit)..(StartTime + MaxClock + RateLimit)

RECURSIVE SleepersIn(_, _)
\* the requests asleep in _handle_rate_limit with a wake time in times
SleepersIn(sl, times) ==
    IF times = {} THEN 0
    ELSE sl[CHOOSE t \in times : \A u \in times : t <= u]
         + SleepersIn(sl, times \ {CHOOSE t \in times : \A u \in times : t <= u})

\* permits of request_semaphore taken: `async with self.request_semaphore`
\* spans the throttle and the request
PermitsHeld ==
    SleepersIn(sleeping, DOMAIN sleeping) + in_flight

\* the smallest time between consecutive sends, after a send at time t
Gap(last, gap, t) ==
    IF last = -1 THEN gap
    ELSE IF gap = -1 \/ t - last < gap THEN t - last
    ELSE gap

\* _make_request is the coroutine of BaseExchange: BinanceExchange and
\* KucoinExchange override it with a plain function
Awaited(class) ==
    class = "BaseExchange"

\* a caller starts a request: a coroutine awaiting _make_request, or a
\* refresh task of the engine queued on the executor by _async_call
IssueRequest ==
    /\ pc = "requests"
    /\ issued < MaxTasks
    /\ issued' = issued + 1
    /\ waiting' = waiting + 1
    /\ UNCHANGED <<config_vars, market_vars, scan_vars, target_symbols, last_fee_update,
                   pc, tasks, raised_pairs, calc_result, error,
                   discover_calls, callback_vars, session, sessions_opened,
                   sessions_closed, request_vars, call_vars, workers,
                   now, last_request_time, sleeping, in_flight, last_sent, min_gap>>

\* BaseExchange._make_request up to its first suspension: take a permit,
\* then _handle_rate_limit either sleeps until last_request_time +
\* rate_limit or stamps last_request_time, and the request is sent
AcquirePermit ==
    /\ pc = "requests"
    /\ Awaited(ConnectorClass(Connector))
    /\ session[Connector] = "open"
    /\ waiting > 0
    /\ PermitsHeld < PermitCount
    /\ waiting' = waiting - 1
    /\ IF now - last_request_time < RateLimit
       THEN /\ sleeping' = [sleeping EXCEPT ![last_request_time + RateLimit] = @ + 1]
            /\ UNCHANGED <<last_request_time, in_flight, last_sent, min_gap>>
       ELSE /\ last_request_time' = now
            /\ in_flight' = in_flight + 1
            /\ last_sent' = now
            /\ min_gap' = Gap(last_sent, min_gap, now)
            /\ UNCHANGED sleeping
    /\ UNCHANGED <<config_vars, market_vars, scan_vars, target_symbols, last_fee_update,
                   pc, tasks, raised_pairs, calc_result, error,
                   discover_calls, callback_vars, session, sessions_opened,
                   sessions_closed, request_vars, call_vars, workers,
                   now, issued>>

\* asyncio.sleep of _handle_rate_limit returns: self.last_request_time =
\* time.time(), and the request is sent
WakeUp(t) ==
    /\ pc = "requests"
    /\ Awaited(ConnectorClass(Connector))
    /\ sleeping[t] > 0
    /\ now >= t
    /\ sleeping' = [sleeping EXCEPT ![t] = @ - 1]
    /\ last_request_time' = now
    /\ in_flight' = in_flight + 1
    /\ last_sent' = now
    /\ min_gap' = Gap(last_sent, min_gap, now)
    /\ UNCHANGED <<config_vars, market_vars, scan_vars, target_symbols, last_fee_update,
                   pc, tasks, raised_pairs, calc_result, error,
                   discover_calls, callback_vars, session, sessions_opened,
                   sessions_closed, request_vars, call_vars, workers,
                   now, issued, waiting>>

\* a worker of the executor runs the connector's method: the overriding
\* _make_request calls self._handle_rate_limit() without awaiting it, so
\* the coroutine never runs, and requests.request sends the request
RunInExecutor ==
    /\ pc = "requests"
    /\ ~Awaited(ConnectorClass(Connector))
    /\ waiting > 0
    /\ in_flight < workers
    /\ waiting' = waiting - 1
    /\ in_flight' = in_flight + 1
    /\ last_sent' = now
    /\ min_gap' = Gap(last_sent, min_gap, now)
    /\ UNCHANGED <<config_vars, market_vars, scan_vars, target_symbols, last_fee_update,
                   pc, tasks, raised_pairs, calc_result, error,
                   discover_calls, callback_vars, session, sessions_opened,
                   sessions_closed, request_vars, call_vars, workers,
                   now, issued, last_request_time, sleeping>>

\* the answer of a request arrives: the permit, or the worker, is free
Respond ==
    /\ pc = "requests"
    /\ in_flight > 0
    /\ in_flight' = in_flight - 1
    /\ UNCHANGED <<config_vars, market_vars, scan_vars, target_symbols, last_fee_update,
                   pc, tasks, raised_pairs, calc_result, error,
                   discover_calls, callback_vars, session, sessions_opened,
                   sessions_closed, request_vars, call_vars, workers,
                   now, issued, waiting, last_request_time, sleeping, last_sent, min_gap>>

\* time.time() moves on by a second
Tick ==
    /\ pc = "requests"
    /\ now < StartTime + MaxClock
    /\ now' = now + 1
    /\ UNCHANGED <<config_vars, market_vars, scan_vars, target_symbols, last_fee_update,
                   pc, tasks, raised_pairs, calc_result, error,
                   discover_calls, callback_vars, session, sessions_opened,
                   sessions_closed, request_vars, call_vars, workers,
                   issued, waiting, last_request_time, sleeping, in_flight,
                   last_sent, min_gap>>

\* One connector after initialize(), no request made yet
InitRequests ==
    /\ exchanges \in {<<"MOCK">>, <<"BINANCE">>, <<"KUCOIN">>}
    /\ initial_capital = RInt(12)
    /\ min_profit_percentage = <<1, 2>>
    /\ max_slippage = <<1, 2>>
    /\ target_symbols = <<"BTC/USDT">>
    /\ order_books_cache = EmptyCache
    /\ trading_fees_cache = [e \in {} |-> NoFees]
    /\ failed_symbols = NoFailed
    /\ last_fee_update = 0
    /\ opportunities_found = 0
    /\ now = StartTime
    /\ pc = "requests"
    /\ tasks = NoTasks
    /\ raised_pairs = {}
    /\ opportunities = <<>>
    /\ calc_calls = <<>>
    /\ calc_result = NoCall
    /\ exchange_info = [e \in Range(exchanges) |-> Response("raise", <<>>)]
    /\ error = "none"
    /\ discover_calls = 0
    /\ NoCallback
    /\ session = [e \in Range(exchanges) |-> "open"]
    /\ sessions_opened = [e \in Range(exchanges) |-> 1]
    /\ sessions_closed = [e \in Range(exchanges) |-> 0]
    /\ scope = "outside"
    /\ request_log = <<>>
    /\ fees_result = NoFeesCall
    /\ NoCredentials
    /\ last_request_time = 0
    /\ workers \in (IF Awaited(ConnectorClass(Connector)) THEN {0} ELSE ExecutorWorkers)
    /\ issued = 0
    /\ waiting = 0
    /\ sleeping = [t \in WakeTimes |-> 0]
    /\ in_flight = 0
    /\ last_sent = -1
    /\ min_gap = -1
    /\ NoCalls

NextRequests ==
    \/ IssueRequest
    \/ AcquirePermit
    \/ \E t \in WakeTimes : WakeUp(t)
    \/ RunInExecutor
    \/ Respond
    \/ Tick

SpecRequests ==
    InitRequests /\ [][NextRequests]_vars

\* C18: two consecutive requests sent by one connector are at least
\* rate_limit apart, also when the requests are issued concurrently.
C18_MinimumIntervalBetweenRequests ==
    min_gap # -1 => min_gap >= RateLimit

\* C19: the requests in flight on one connector never exceed the permit
\* count of its semaphore, however many requests are started.
C19_InFlightWithinPermits ==
    in_flight <= PermitCount

\* ------------------------------------------------------------------------
\* Properties of the interrupted loop and of the callback
\* ------------------------------------------------------------------------

\* C12: an interrupt that arrives in any phase of the loop makes start()
\* stop and return; start() never ends by raising the interrupt's exception.
C12_InterruptNeverRaises ==
    pc = "raised" => error \notin InterruptKinds

\* C13: when scan_opportunities is interrupted, nothing of that scan is
\* reported: opportunities_found is not raised and no callback task is made.
C13_InterruptedScanReportsNothing ==
    [][(pc = "scan" /\ pc' = "stopped") =>
           /\ opportunities_found' = opportunities_found
           /\ callback_tasks' = callback_tasks]_vars

\* C16: when main() has ended, however the loop ended, every session that
\* initialize() opened has been closed and released.
C16_SessionsReleasedAtShutdown ==
    pc = "exited" =>
        \A e \in Range(exchanges) :
            session[e] = "None" /\ sessions_closed[e] = sessions_opened[e]

\* The exceptions the registered callback has raised so far: a plain
\* function raises at each dispatch, a coroutine raises in its task.
CallbackRaised ==
    IF opportunity_callback = "sync_raises" THEN opportunities_found
    ELSE Cardinality({k \in DOMAIN callback_tasks : callback_tasks[k].state = "failed"})

\* C14: every exception raised by the callback is caught and logged by the
\* engine, none leaves scan_opportunities, and the scan still returns the
\* opportunities it returns without a callback.
C14_CallbackErrorsCaughtAndLogged ==
    /\ callback_errors = CallbackRaised
    /\ error # "scan"
    /\ pc = "sleep" =>
           opportunities =
               scan_opportunities(target_symbols, order_books_cache, trading_fees_cache,
                                  [Config EXCEPT !.opportunity_callback = "none"],
                                  now).opportunities

\* ------------------------------------------------------------------------
\* The scanner and the calculator called on an engine whose caches were
\* assigned directly, as the unit tests of the engine do
\* ------------------------------------------------------------------------
BookMid ==
    [bids |-> <<<<6, 4>>, <<5, 4>>>>, asks |-> <<<<7, 4>>, <<8, 4>>>>]

\* the best ask is too thin for the notional: the buy leg slips
BookThinAsk ==
    [bids |-> <<<<5, 4>>, <<4, 4>>>>, asks |-> <<<<6, 1>>, <<7, 4>>>>]

\* the best bid is too thin for the notional: the sell leg slips
BookThinBid ==
    [bids |-> <<<<8, 1>>, <<7, 4>>>>, asks |-> <<<<9, 4>>, <<10, 4>>>>]

BookNoAsks ==
    [bids |-> <<<<8, 4>>, <<7, 4>>>>, asks |-> <<>>]

ScanBooks ==
    {BookLow, BookHigh, BookMid, BookThinAsk, BookThinBid,
     BookNoBids, BookNoAsks, EmptyBook}

Entry(exchange, book) ==
    [exchange |-> exchange, data |-> book, timestamp |-> StartTime]

\* the caches assigned: two exchanges holding any two books for BTC/USDT, or
\* three exchanges for BTC/USDT and two for ETH/USDT
ScanCaches ==
    {[sym \in {"BTC/USDT"} |-> <<Entry(x[1], b1), Entry(x[2], b2)>>] :
        x \in {<<"BINANCE", "KUCOIN">>, <<"KUCOIN", "BINANCE">>},
        b1 \in ScanBooks, b2 \in ScanBooks}
    \cup
    {[sym \in {"BTC/USDT", "ETH/USDT"} |->
         IF sym = "BTC/USDT"
         THEN <<Entry(x[1], b1), Entry(x[2], b2), Entry(x[3], b3)>>
         ELSE <<Entry("KUCOIN", BookHigh), Entry("BINANCE", BookLow)>>] :
        x \in {<<"BINANCE", "KUCOIN", "OKX">>, <<"OKX", "BINANCE", "KUCOIN">>},
        b1 \in {BookLow, BookHigh, BookMid},
        b2 \in {BookLow, BookHigh, BookMid},
        b3 \in {BookLow, BookHigh, BookMid, BookThinBid}}

ZeroFees ==
    [sym \in {"BTC/USDT", "ETH/USDT"} |-> Fee(RZero, RZero)]

\* a fee cache with different maker and taker rates for BTC/USDT on BINANCE,
\* no entry for BTC/USDT on KUCOIN and no entry for OKX
SkewedFees ==
    [e \in {"BINANCE", "KUCOIN"} |->
        IF e = "BINANCE" THEN [sym \in {"BTC/USDT"} |-> Fee(<<1, 100>>, <<1, 50>>)]
        ELSE [sym \in {"ETH/USDT"} |-> Fee(<<1, 50>>, <<1, 100>>)]]

InitScan ==
    /\ exchanges = <<"BINANCE", "KUCOIN", "OKX">>
    /\ initial_capital = RInt(12)
    /\ min_profit_percentage \in {RZero, <<1, 2>>, RInt(25)}
    /\ max_slippage \in {<<1, 2>>, <<25, 4>>}
    /\ target_symbols = <<"BTC/USDT", "ETH/USDT">>
    /\ order_books_cache \in ScanCaches
    /\ trading_fees_cache \in
           {[e \in {} |-> NoFees], [e \in {"BINANCE", "KUCOIN", "OKX"} |-> ZeroFees],
            SkewedFees}
    /\ failed_symbols = NoFailed
    /\ last_fee_update = 0
    /\ opportunities_found = 0
    /\ now = StartTime
    /\ pc = "idle"
    /\ tasks = NoTasks
    /\ raised_pairs = {}
    /\ opportunities = <<>>
    /\ calc_calls = <<>>
    /\ calc_result = NoCall
    /\ exchange_info = [e \in {"BINANCE", "KUCOIN", "OKX"} |-> Response("raise", <<>>)]
    /\ error = "none"
    /\ discover_calls = 0
    /\ NoCallback
    /\ NoSessions
    /\ NoCredentials
    /\ NoRequests
    /\ NoCalls

\* await engine.scan_opportunities()
CallScan ==
    /\ pc = "idle"
    /\ \E r \in {scan_opportunities(target_symbols, order_books_cache,
                                     trading_fees_cache, Config, now)} :
           /\ calc_calls' = r.calc_calls
           /\ callback_tasks' = callback_tasks \o Spawned(r.dispatched)
           /\ callback_errors' = callback_errors + r.callback_errors
           /\ opportunities_found' = opportunities_found + Len(r.opportunities)
           /\ opportunities' = IF r.raised THEN <<>> ELSE r.opportunities
           /\ error' = IF r.raised THEN "scan" ELSE "none"
    /\ pc' = "scanned"
    /\ UNCHANGED <<config_vars, market_vars, target_symbols, last_fee_update,
                   now, tasks, raised_pairs, calc_result,
                   discover_calls, opportunity_callback, conn_vars>>

\* await engine.calculate_potential_profit(symbol, buy_exchange, sell_exchange, amount)
CallCalc(symbol, buy_exchange, sell_exchange) ==
    /\ pc = "idle"
    /\ \E r \in {calculate_potential_profit(order_books_cache, trading_fees_cache,
                                             symbol, buy_exchange, sell_exchange,
                                             initial_capital)} :
           /\ calc_result' = [symbol |-> symbol, buy_exchange |-> buy_exchange,
                              sell_exchange |-> sell_exchange, result |-> r]
           /\ error' = IF r.raised THEN "ZeroDivisionError" ELSE "none"
    /\ pc' = "calculated"
    /\ UNCHANGED <<config_vars, market_vars, scan_vars, target_symbols,
                   last_fee_update, now, tasks, raised_pairs,
                   discover_calls, callback_vars, conn_vars>>

NextScan ==
    \/ CallScan
    \/ \E symbol \in Range(target_symbols), buy_exchange \in Range(exchanges),
          sell_exchange \in Range(exchanges) :
          CallCalc(symbol, buy_exchange, sell_exchange)

SpecScan ==
    InitScan /\ [][NextScan]_vars

\* ------------------------------------------------------------------------
\* Properties of the scanner and the calculator
\* ------------------------------------------------------------------------
TwoSided(book) ==
    book.bids # <<>> /\ book.asks # <<>>

\* every book cached for a target symbol has bids and asks
TargetBooksTwoSided ==
    \A sym \in Range(target_symbols) \cap DOMAIN order_books_cache :
        \A k \in 1..Len(order_books_cache[sym]) : TwoSided(order_books_cache[sym][k].data)

CallKey(r) ==
    <<r.symbol, r.buy_exchange, r.sell_exchange>>

\* what the calculator returns for a call of the last scan
ResultOf(call) ==
    calculate_potential_profit(order_books_cache, trading_fees_cache, call.symbol,
                               call.buy_exchange, call.sell_exchange, initial_capital)

\* C5: for a pair with a favourable direction (one for which the scan
\* called the calculator), the scan returns an opportunity if and only if
\* profit_percentage >= min_profit_percentage and buy_slippage <=
\* max_slippage / 100 and sell_slippage <= max_slippage / 100, on the values
\* the calculator returns for initial_capital; the opportunity carries them.
C5_AcceptIffThresholds ==
    (pc = "scanned" /\ error = "none") =>
        /\ \A k \in 1..Len(calc_calls) :
              LET res == ResultOf(calc_calls[k])
              IN  (\E n \in 1..Len(opportunities) :
                       CallKey(opportunities[n]) = CallKey(calc_calls[k]))
                  <=> (/\ RLe(min_profit_percentage, res.profit_percentage)
                       /\ RLe(res.buy_slippage, RMul(max_slippage, <<1, 100>>))
                       /\ RLe(res.sell_slippage, RMul(max_slippage, <<1, 100>>)))
        /\ \A n \in 1..Len(opportunities) :
              /\ \E k \in 1..Len(calc_calls) : CallKey(opportunities[n]) = CallKey(calc_calls[k])
              /\ LET res == ResultOf(opportunities[n])
                 IN  /\ opportunities[n].profit_percentage = res.profit_percentage
                     /\ opportunities[n].buy_slippage = res.buy_slippage
                     /\ opportunities[n].sell_slippage = res.sell_slippage

\* a scan that evaluated two favourable pairs, accepted one and rejected the
\* other only because its sell leg slips more than max_slippage / 100
C5_Witness ==
    /\ pc = "scanned" /\ error = "none"
    /\ Len(opportunities) >= 1
    /\ \E k \in 1..Len(calc_calls) :
          LET res == ResultOf(calc_calls[k])
          IN  /\ \A n \in 1..Len(opportunities) :
                    CallKey(opportunities[n]) # CallKey(calc_calls[k])
              /\ RLe(min_profit_percentage, res.profit_percentage)
              /\ RLe(res.buy_slippage, RMul(max_slippage, <<1, 100>>))
              /\ ~RLe(res.sell_slippage, RMul(max_slippage, <<1, 100>>))

BestBid(entry) ==
    entry.data.bids[1][1]

BestAsk(entry) ==
    entry.data.asks[1][1]

Called(symbol, buy_entry, sell_entry) ==
    \E k \in 1..Len(calc_calls) :
        CallKey(calc_calls[k]) = <<symbol, buy_entry.exchange, sell_entry.exchange>>

\* C6: for each pair (A, B) of exchanges cached for a target symbol, A before
\* B: if best bid on B > best ask on A the calculator is called for buy on A
\* / sell on B; otherwise, if best bid on A > best ask on B, for buy on B /
\* sell on A; otherwise it is not called for the pair; and the scan does not
\* raise.  (Books with both sides, as every refreshed book has.)
C6_DirectionChoice ==
    (pc = "scanned" /\ TargetBooksTwoSided) =>
        /\ error = "none"
        /\ \A sym \in Range(target_symbols) \cap DOMAIN order_books_cache :
              \A i, j \in 1..Len(order_books_cache[sym]) :
                  i < j =>
                     LET A == order_books_cache[sym][i]
                         B == order_books_cache[sym][j]
                     IN  IF BestBid(B) > BestAsk(A)
                         THEN Called(sym, A, B) /\ ~Called(sym, B, A)
                         ELSE IF BestBid(A) > BestAsk(B)
                         THEN Called(sym, B, A) /\ ~Called(sym, A, B)
                         ELSE ~Called(sym, A, B) /\ ~Called(sym, B, A)

\* a scan of three exchanges that took one pair in the normal direction,
\* one in the reverse direction and skipped one
C6_Witness ==
    /\ pc = "scanned" /\ TargetBooksTwoSided /\ error = "none"
    /\ \E i, j, k, l, m, n \in 1..Len(order_books_cache["BTC/USDT"]) :
          LET e == order_books_cache["BTC/USDT"]
          IN  /\ i < j /\ k < l /\ m < n
              /\ BestBid(e[j]) > BestAsk(e[i]) /\ Called("BTC/USDT", e[i], e[j])
              /\ ~(BestBid(e[l]) > BestAsk(e[k])) /\ BestBid(e[k]) > BestAsk(e[l])
              /\ Called("BTC/USDT", e[l], e[k])
              /\ ~(BestBid(e[n]) > BestAsk(e[m])) /\ ~(BestBid(e[m]) > BestAsk(e[n]))
              /\ ~Called("BTC/USDT", e[m], e[n])

\* no pair of exchanges cached for a target symbol has, in either direction,
\* a best bid strictly greater than the other exchange's best ask
NoFavourablePair ==
    /\ TargetBooksTwoSided
    /\ \A sym \in Range(target_symbols) \cap DOMAIN order_books_cache :
          \A i, j \in 1..Len(order_books_cache[sym]) :
              i # j => ~(BestBid(order_books_cache[sym][j]) > BestAsk(order_books_cache[sym][i]))

\* C7: if no pair of exchanges cached for any target symbol has a best bid
\* strictly greater than the other exchange's best ask, in either direction,
\* scan_opportunities returns an empty list (and does not raise).
C7_NoSpreadNoOpportunity ==
    (pc = "scanned" /\ NoFavourablePair) =>
        (opportunities = <<>> /\ error = "none" /\ opportunities_found = 0)

\* a scan over two different books whose best bid equals the other's best
\* ask, with zero fees and a zero profit threshold
C7_Witness ==
    /\ pc = "scanned" /\ NoFavourablePair
    /\ min_profit_percentage = RZero
    /\ DOMAIN trading_fees_cache # {}
    /\ \E i, j \in 1..Len(order_books_cache["BTC/USDT"]) :
          BestBid(order_books_cache["BTC/USDT"][j]) = BestAsk(order_books_cache["BTC/USDT"][i])

\* the book the cache holds for (symbol, exchange) has empty bids or asks
CachedOneSided(symbol, exchange) ==
    /\ symbol \in DOMAIN order_books_cache
    /\ HasExchange(order_books_cache[symbol], exchange)
    /\ ~TwoSided(EntryOf(order_books_cache[symbol], exchange).data)

\* C8: for a cached book with empty bids or empty asks, the calculator
\* returns (0, 0, 0, 0) for every pairing that has the book on its buy side
\* or on its sell side, and neither the calculator nor the scan raises.
C8_EmptySideYieldsZero ==
    /\ pc = "calculated" =>
          /\ error = "none"
          /\ (\/ CachedOneSided(calc_result.symbol, calc_result.buy_exchange)
              \/ CachedOneSided(calc_result.symbol, calc_result.sell_exchange))
             => calc_result.result = CalcZero
    /\ pc = "scanned" => error = "none"

\* the rate the fee cache holds for a leg, 0.001 when the exchange, the
\* symbol or the rate is absent
CachedRate(exchange, symbol, side) ==
    IF /\ exchange \in DOMAIN trading_fees_cache
       /\ symbol \in DOMAIN trading_fees_cache[exchange]
       /\ side \in DOMAIN trading_fees_cache[exchange][symbol]
    THEN Fl(trading_fees_cache[exchange][symbol][side])
    ELSE Fl(DefaultFeeRate)

\* the last direct call had both books cached, asks on the buy side and
\* bids on the sell side
CalcPriced ==
    /\ pc = "calculated"
    /\ calc_result.symbol \in DOMAIN order_books_cache
    /\ HasExchange(order_books_cache[calc_result.symbol], calc_result.buy_exchange)
    /\ HasExchange(order_books_cache[calc_result.symbol], calc_result.sell_exchange)
    /\ EntryOf(order_books_cache[calc_result.symbol], calc_result.buy_exchange).data.asks # <<>>
    /\ EntryOf(order_books_cache[calc_result.symbol], calc_result.sell_exchange).data.bids # <<>>

\* coinsBought * adjustedSellPrice
SaleBeforeFee(amount, buy_fee, adjusted_buy_price, adjusted_sell_price) ==
    FMul(FDiv(FSub(amount, FMul(amount, buy_fee)), adjusted_buy_price),
         adjusted_sell_price)

\* coinsBought * adjustedSellPrice * (1 - sellFee) - amount, the sell fee
\* taken off the proceeds as the code does
ProfitOf(amount, sale_before_fee, sell_fee) ==
    FSub(FSub(sale_before_fee, FMul(sale_before_fee, sell_fee)), amount)

\* C24: with both books cached and the relevant sides non-empty, the
\* calculator returns profit = coinsBought * adjustedSellPrice * (1 - sellFee)
\* - amount and profitPercentage = profit / amount * 100, where coinsBought =
\* (amount - amount * buyFee) / adjustedBuyPrice, the adjusted prices are the
\* best ask times (1 + buySlippage) and the best bid times (1 - sellSlippage),
\* buyFee is the buy exchange's cached taker rate and sellFee the sell
\* exchange's cached maker rate, 0.001 when absent.
C24_ProfitFormula ==
    CalcPriced =>
        /\ ~calc_result.result.raised
        /\ calc_result.result.profit =
               ProfitOf(initial_capital,
                        SaleBeforeFee(initial_capital,
                                      CachedRate(calc_result.buy_exchange, calc_result.symbol, "taker"),
                                      FMul(RInt(BestAsk(EntryOf(order_books_cache[calc_result.symbol],
                                                                calc_result.buy_exchange))),
                                           FAdd(ROne, calc_result.result.buy_slippage)),
                                      FMul(RInt(BestBid(EntryOf(order_books_cache[calc_result.symbol],
                                                                calc_result.sell_exchange))),
                                           FSub(ROne, calc_result.result.sell_slippage))),
                        CachedRate(calc_result.sell_exchange, calc_result.symbol, "maker"))
        /\ calc_result.result.profit_percentage =
               FMul(FDiv(calc_result.result.profit, initial_capital), RInt(100))

\* a call that buys on BINANCE, whose taker rate differs from its maker
\* rate, sells on KUCOIN, which has no rate for the symbol, and slips
C24_Witness ==
    /\ CalcPriced
    /\ trading_fees_cache = SkewedFees
    /\ calc_result.symbol = "BTC/USDT"
    /\ calc_result.buy_exchange = "BINANCE"
    /\ calc_result.sell_exchange = "KUCOIN"
    /\ calc_result.result.buy_slippage # RZero
    /\ calc_result.result.profit # RZero

\* ------------------------------------------------------------------------
\* Symbol discovery called on a constructed engine, as the unit tests do
\* ------------------------------------------------------------------------
DiscoverResponses ==
    {Response("raise", <<>>),
     Response("nondict", <<>>),
     Response("dict", <<>>),
     Response("dict", <<Listing("BTC/USDT", "BREAK")>>),
     Response("dict", <<Listing("BTCUP/USDT", "TRADING"), Listing("BTC/EUR", "TRADING"),
                        Listing("BTCUSDT", "TRADING")>>),
     Response("dict", <<Listing("BTC/USDT", "TRADING"), Listing("ETH/USDT", "TRADING")>>),
     Response("dict", <<Listing("ABC/BTC", "TRADING"), Listing("LINK/USDT", "TRADING")>>),
     Response("dict", <<Listing("LINK/USDT", "TRADING"), Listing("XRP/USDT", "TRADING")>>)}

InitDiscover ==
    /\ exchanges \in {<<"BINANCE">>, <<"BINANCE", "KUCOIN">>, <<"BINANCE", "KUCOIN", "OKX">>}
    /\ initial_capital = RInt(12)
    /\ min_profit_percentage = <<1, 2>>
    /\ max_slippage = <<1, 2>>
    /\ target_symbols \in {<<>>, <<"XRP/USDT", "LINK/USDT">>}
    /\ order_books_cache = EmptyCache
    /\ trading_fees_cache = [e \in {} |-> NoFees]
    /\ failed_symbols = NoFailed
    /\ last_fee_update = 0
    /\ opportunities_found = 0
    /\ now = StartTime
    /\ pc = "idle"
    /\ tasks = NoTasks
    /\ raised_pairs = {}
    /\ opportunities = <<>>
    /\ calc_calls = <<>>
    /\ calc_result = NoCall
    /\ exchange_info \in [Range(exchanges) -> DiscoverResponses]
    /\ error = "none"
    /\ discover_calls = 0
    /\ NoCallback
    /\ NoSessions
    /\ NoCredentials
    /\ NoRequests
    /\ NoCalls

\* await engine._discover_tradable_symbols()
CallDiscover ==
    /\ pc = "idle"
    /\ discover_calls' = discover_calls + 1
    /\ \E outcome \in discover_tradable_symbols(exchanges, exchange_info) :
          IF outcome.raised
          THEN /\ error' = "UnboundLocalError"
               /\ UNCHANGED target_symbols
          ELSE /\ target_symbols' = outcome.target_symbols
               /\ UNCHANGED error
    /\ pc' = "discovered"
    /\ UNCHANGED <<config_vars, market_vars, scan_vars, last_fee_update,
                   now, tasks, raised_pairs, calc_result,
                   callback_vars, conn_vars>>

NextDiscover ==
    CallDiscover

SpecDiscover ==
    InitDiscover /\ [][NextDiscover]_vars

\* no exchange returned a listing that passes the filters
NothingDiscovered ==
    \A e \in Range(exchanges) :
        exchange_info[e].kind # "dict"
        \/ \A k \in 1..Len(exchange_info[e].symbols) :
              LET entry == exchange_info[e].symbols[k]
              IN  \/ entry.status # "TRADING"
                  \/ entry.symbol \notin {"BTC/USDT", "ETH/USDT", "XRP/USDT", "LINK/USDT", "ABC/BTC"}

\* C9: symbol discovery never raises and ends with a non-empty
\* target_symbols, whatever the connectors do (raise, return a non-dict,
\* return no tradable symbol, return only symbols the filters reject); when
\* nothing is discovered target_symbols is exactly [BTC/USDT, ETH/USDT].
C9_DiscoveryNeverFails ==
    pc = "discovered" =>
        /\ error = "none"
        /\ target_symbols # <<>>
        /\ NothingDiscovered => target_symbols = <<"BTC/USDT", "ETH/USDT">>

\* C10: when target symbols are already configured, running the discovery
\* leaves target_symbols unchanged.
C10_ConfiguredSymbolsKept ==
    [][(pc = "idle" /\ pc' = "discovered" /\ target_symbols # <<>>)
          => target_symbols' = target_symbols]_vars

\* ------------------------------------------------------------------------
\* estimate_slippage called directly on one side of an order book
\* ------------------------------------------------------------------------

MaxPrice ==
    4

MaxSize ==
    3

MaxLevels ==
    2

\* amounts are tenths: 0.1 .. MaxTenths / 10
MaxTenths ==
    9

\* calls made on one book
MaxCalls ==
    2

\* one level [price, size] of a book; sizes of zero included
Levels ==
    {<<price, size>> : price \in 1..MaxPrice, size \in 0..MaxSize}

\* one side of a book, in any order of prices
Sides ==
    UNION {[1..n -> Levels] : n \in 0..MaxLevels}

SlippageAmounts ==
    {Fl(<<k, 10>>) : k \in 1..MaxTenths} \cup {RInt(MaxPrice)}

\* the levels estimate_slippage walks for the side
SideLevels(order_book, side) ==
    IF side = "buy" THEN order_book.asks ELSE order_book.bids

InitSlippage ==
    /\ exchanges = <<"BINANCE", "KUCOIN">>
    /\ initial_capital = RInt(12)
    /\ min_profit_percentage = <<1, 2>>
    /\ max_slippage = <<1, 2>>
    /\ target_symbols = <<"BTC/USDT">>
    /\ order_books_cache = EmptyCache
    /\ trading_fees_cache = [e \in {} |-> NoFees]
    /\ failed_symbols = NoFailed
    /\ last_fee_update = 0
    /\ opportunities_found = 0
    /\ now = StartTime
    /\ pc = "idle"
    /\ tasks = NoTasks
    /\ raised_pairs = {}
    /\ opportunities = <<>>
    /\ calc_calls = <<>>
    /\ calc_result = NoCall
    /\ exchange_info = [e \in Range(exchanges) |-> Response("raise", <<>>)]
    /\ error = "none"
    /\ discover_calls = 0
    /\ NoCallback
    /\ NoSessions
    /\ NoCredentials
    /\ NoRequests
    /\ slippage_side \in {"buy", "sell"}
    /\ \E levels \in Sides :
          slippage_book = IF slippage_side = "buy"
                          THEN [bids |-> <<>>, asks |-> levels]
                          ELSE [bids |-> levels, asks |-> <<>>]
    /\ slippage_calls = {}
    /\ NoNormalized

\* engine.estimate_slippage(order_book, amount, side)
CallSlippage(amount) ==
    /\ pc = "idle"
    /\ Cardinality(slippage_calls) < MaxCalls
    /\ \A c \in slippage_calls : c.amount # amount
    /\ slippage_calls' = slippage_calls \cup
           {[amount |-> amount,
             slippage |-> estimate_slippage(slippage_book, amount, slippage_side)]}
    /\ UNCHANGED <<config_vars, market_vars, scan_vars, target_symbols, last_fee_update,
                   now, pc, tasks, raised_pairs, calc_result, error,
                   discover_calls, callback_vars, session, sessions_opened,
                   sessions_closed, request_vars, throttle_vars,
                   slippage_book, slippage_side, normalize_vars>>

NextSlippage ==
    \E amount \in SlippageAmounts : CallSlippage(amount)

SpecSlippage ==
    InitSlippage /\ [][NextSlippage]_vars

\* C21: on one book and one side, a larger amount never has a smaller
\* estimated slippage.
C21_SlippageMonotonic ==
    \A c1 \in slippage_calls, c2 \in slippage_calls :
        RLt(c1.amount, c2.amount) => RLe(c1.slippage, c2.slippage)

\* C22: an amount that the best level alone fills has slippage exactly 0.
C22_BestLevelFillIsZero ==
    \A c \in slippage_calls :
        (/\ SideLevels(slippage_book, slippage_side) # <<>>
         /\ RLe(c.amount, RInt(SideLevels(slippage_book, slippage_side)[1][2])))
            => c.slippage = RZero

\* C23: the estimated slippage is never negative, whatever the order of the
\* levels.
C23_SlippageNeverNegative ==
    \A c \in slippage_calls : RLe(RZero, c.slippage)

\* ---------------------------------------------------------------------------
\* One iteration of start() with three configured exchanges: the refresh tasks
\* of _update_market_data complete in any order, then scan_opportunities runs.
\* ---------------------------------------------------------------------------

InitOrder ==
    /\ exchanges = <<"BINANCE", "KUCOIN", "OKX">>
    /\ initial_capital = RInt(12)
    /\ min_profit_percentage = <<1, 2>>
    /\ max_slippage = <<1, 2>>
    /\ target_symbols = <<"BTC/USDT">>
    /\ order_books_cache = EmptyCache
    /\ trading_fees_cache = [e \in {} |-> NoFees]
    /\ failed_symbols = NoFailed
    /\ last_fee_update = 0
    /\ opportunities_found = 0
    /\ now = StartTime
    /\ pc = "loop"
    /\ tasks = NoTasks
    /\ raised_pairs = {}
    /\ opportunities = <<>>
    /\ calc_calls = <<>>
    /\ calc_result = NoCall
    /\ exchange_info = [e \in {"BINANCE", "KUCOIN", "OKX"} |-> Response("raise", <<>>)]
    /\ error = "none"
    /\ discover_calls = 0
    /\ NoCallback
    /\ NoSessions
    /\ NoCredentials
    /\ NoRequests
    /\ NoCalls

NextOrder ==
    \/ StartCycle
    \/ UpdateLaunch
    \/ \E t \in DOMAIN tasks : OrderBookRaises(t)
    \/ \E t \in DOMAIN tasks : OrderBookReturns(t)
    \/ \E t \in DOMAIN tasks : TradingFeesRaises(t)
    \/ \E t \in DOMAIN tasks : TradingFeesReturns(t)
    \/ GatherDone
    \/ Scan

SpecOrder ==
    InitOrder /\ [][NextOrder]_vars

\* the position of symbol in self.target_symbols
SymbolIndex(symbol) ==
    CHOOSE i \in 1..Len(target_symbols) : target_symbols[i] = symbol

\* the position of exchange in self.exchanges
ExchangeIndex(exchange) ==
    CHOOSE i \in 1..Len(exchanges) : exchanges[i] = exchange

\* where the pair of a call stands in symbol list order x exchange list order:
\* the symbol first, then the earlier configured exchange of the pair, then
\* the later one
PairRank(call) ==
    LET b == ExchangeIndex(call.buy_exchange)
        s == ExchangeIndex(call.sell_exchange)
    IN  <<SymbolIndex(call.symbol), IF b < s THEN b ELSE s, IF b < s THEN s ELSE b>>

RankBefore(x, y) ==
    \/ x[1] < y[1]
    \/ x[1] = y[1] /\ x[2] < y[2]
    \/ x[1] = y[1] /\ x[2] = y[2] /\ x[3] < y[3]

InConfiguredOrder(calls) ==
    \A k \in 1..Len(calls) : \A l \in 1..Len(calls) :
        k < l => RankBefore(PairRank(calls[k]), PairRank(calls[l]))

\* C29: when a scan has returned, the pairs it evaluated and the opportunities
\* it returned stand in configured symbol order and configured exchange order,
\* whatever order the refresh tasks completed in.
C29_ConfiguredOrder ==
    pc = "sleep" =>
        /\ InConfiguredOrder(calc_calls)
        /\ InConfiguredOrder(opportunities)

\* ---------------------------------------------------------------------------
\* The response normalizers called directly on a raw response.  A JSON object
\* is a function from its keys: a missing field is a key outside its DOMAIN.
\* Numbers arrive as strings and float() parses them.
\* ---------------------------------------------------------------------------

MaxFields ==
    2

MaxRawLevels ==
    1

MaxAccounts ==
    1

\* dict.get(key, default)
Get(dict, key, default) ==
    IF key \in DOMAIN dict THEN dict[key] ELSE default

\* float(text) of the number strings the raw responses carry
float(text) ==
    CASE text = "1" -> Fl(<<1, 1>>)
      [] text = "2.5" -> Fl(<<5, 2>>)
      [] text = "0.01" -> Fl(<<1, 100>>)
      [] text = "0" -> RZero

\* len(str(increment).split('.')[-1])
FractionDigits(text) ==
    CASE text = "1" -> 1
      [] text = "2.5" -> 1
      [] text = "0.01" -> 2
      [] text = "0" -> 1

Returned(result) ==
    [called |-> TRUE, raised |-> FALSE, result |-> result]

\* the call ended with an exception
Raised ==
    [called |-> TRUE, raised |-> TRUE, result |-> EmptyDict]

RawNumbers ==
    {"1", "2.5"}

\* one raw price level: the first fields of [price, size, "0", "0"], up to
\* MaxFields of them
RawLevels ==
    {SubSeq(<<price, "1", "0", "0">>, 1, n) : price \in RawNumbers, n \in 1..MaxFields}

RawSides ==
    UNION {[1..n -> RawLevels] : n \in 0..MaxRawLevels}

\* the other side of a raw book: no level or one
RawShortSides ==
    {<<>>} \cup {<<level>> : level \in RawLevels}

\* the objects that carry a subset of the keys of full
Partial(full) ==
    {[k \in keys |-> full[k]] : keys \in SUBSET DOMAIN full}

\* the objects that carry every key of full, every key but one, or none
LackingOne(full) ==
    {full, [k \in {} |-> ""]} \cup
    {[k \in DOMAIN full \ {missing} |-> full[k]] : missing \in DOMAIN full}

\* raw order books of Binance: bids, asks and lastUpdateId at the top level
BinanceOrderBooks ==
    UNION {Partial([bids |-> b, asks |-> a, lastUpdateId |-> 7]) :
              b \in RawSides, a \in RawShortSides}

\* raw order books of KuCoin: bids, asks and time under 'data'
KucoinOrderBooks ==
    {EmptyDict} \cup
    {[data |-> d] :
        d \in UNION {Partial([bids |-> b, asks |-> a, time |-> 7]) :
                        b \in RawSides, a \in RawShortSides}}

KucoinTickers ==
    {EmptyDict} \cup
    {[data |-> d] :
        d \in Partial([price |-> "2.5", bestBid |-> "1", bestAsk |-> "2.5",
                       size |-> "1", high |-> "2.5", low |-> "1", time |-> 7])}

RawAccounts ==
    Partial([currency |-> "BTC", available |-> "1", holds |-> "1", balance |-> "2.5"])

KucoinBalances ==
    {EmptyDict} \cup
    {[data |-> accounts] :
        accounts \in UNION {[1..n -> RawAccounts] : n \in 0..MaxAccounts}}

RawSymbolInfos ==
    UNION {Partial([enableTrading |-> trading, baseCurrency |-> "BTC",
                    quoteCurrency |-> "USDT", priceIncrement |-> "0.01",
                    baseMinSize |-> "1", baseIncrement |-> "0.01"]) :
              trading \in BOOLEAN}

KucoinExchangeInfos ==
    {EmptyDict} \cup
    {[data |-> infos] : infos \in UNION {[1..n -> RawSymbolInfos] : n \in 0..1}}

\* [[float(price), float(size)] for price, size in levels]
FloatLevels(levels) ==
    [i \in 1..Len(levels) |-> <<float(levels[i][1]), float(levels[i][2])>>]

\* KucoinNormalizer.normalize_order_book: unpacking a level that does not have
\* exactly two fields raises ValueError
KucoinNormalizeOrderBook(symbol, raw) ==
    LET data == Get(raw, "data", EmptyDict)
        bids == Get(data, "bids", <<>>)
        asks == Get(data, "asks", <<>>)
    IN  IF \/ \E i \in 1..Len(bids) : Len(bids[i]) # 2
           \/ \E i \in 1..Len(asks) : Len(asks[i]) # 2
        THEN Raised
        ELSE Returned([symbol |-> symbol, bids |-> FloatLevels(bids),
                       asks |-> FloatLevels(asks),
                       timestamp |-> Get(data, "time", 0)])

\* the levels BinanceNormalizer keeps: those with len(level) >= 2
LongEnough(level) ==
    Len(level) >= 2

\* BinanceNormalizer.normalize_order_book
BinanceNormalizeOrderBook(symbol, raw) ==
    IF DOMAIN raw = {}
    THEN Returned([symbol |-> symbol, bids |-> <<>>, asks |-> <<>>, timestamp |-> 0])
    ELSE Returned([symbol |-> symbol,
                   bids |-> FloatLevels(SelectSeq(Get(raw, "bids", <<>>), LongEnough)),
                   asks |-> FloatLevels(SelectSeq(Get(raw, "asks", <<>>), LongEnough)),
                   timestamp |-> Get(raw, "lastUpdateId", 0)])

\* KucoinNormalizer.normalize_ticker
KucoinNormalizeTicker(symbol, raw) ==
    LET data == Get(raw, "data", EmptyDict)
    IN  Returned([symbol |-> symbol,
                  last_price |-> float(Get(data, "price", "0")),
                  bid |-> float(Get(data, "bestBid", "0")),
                  ask |-> float(Get(data, "bestAsk", "0")),
                  volume |-> float(Get(data, "size", "0")),
                  high |-> float(Get(data, "high", "0")),
                  low |-> float(Get(data, "low", "0")),
                  timestamp |-> Get(data, "time", 0)])

AccountKeys ==
    {"currency", "available", "holds", "balance"}

\* KucoinNormalizer.normalize_balance: account['currency'], account['available'],
\* account['holds'] and account['balance'] raise KeyError when missing
KucoinNormalizeBalance(raw) ==
    LET data == Get(raw, "data", <<>>)
    IN  IF \E i \in 1..Len(data) : ~(AccountKeys \subseteq DOMAIN data[i])
        THEN Raised
        ELSE Returned([c \in {data[i].currency : i \in 1..Len(data)} |->
                 LET last == CHOOSE i \in 1..Len(data) :
                                 /\ data[i].currency = c
                                 /\ \A j \in 1..Len(data) : data[j].currency = c => j <= i
                 IN  [free |-> float(data[last].available),
                      locked |-> float(data[last].holds),
                      total |-> float(data[last].balance)]])

\* symbol_info.get('enableTrading')
Enabled(symbol_info) ==
    Get(symbol_info, "enableTrading", FALSE)

\* one entry of 'symbols' in KucoinNormalizer.normalize_exchange_info
KucoinSymbol(symbol_info) ==
    [symbol |-> symbol_info.baseCurrency \o "/" \o symbol_info.quoteCurrency,
     status |-> "TRADING",
     base_asset |-> symbol_info.baseCurrency,
     quote_asset |-> symbol_info.quoteCurrency,
     min_price |-> float(Get(symbol_info, "priceIncrement", "0")),
     min_qty |-> float(Get(symbol_info, "baseMinSize", "0")),
     price_precision |-> FractionDigits(Get(symbol_info, "priceIncrement", "1")),
     qty_precision |-> FractionDigits(Get(symbol_info, "baseIncrement", "1"))]

\* KucoinNormalizer.normalize_exchange_info: symbol_info['baseCurrency'] and
\* symbol_info['quoteCurrency'] raise KeyError when missing
KucoinNormalizeExchangeInfo(raw) ==
    LET data == Get(raw, "data", <<>>)
        trading == SelectSeq(data, Enabled)
    IN  IF \E i \in 1..Len(trading) :
               ~({"baseCurrency", "quoteCurrency"} \subseteq DOMAIN trading[i])
        THEN Raised
        ELSE Returned([exchange |-> "KUCOIN",
                       symbols |-> [i \in 1..Len(trading) |-> KucoinSymbol(trading[i])],
                       server_time |-> Get(raw, "time", "None")])

MaxSymbols ==
    2

MaxNormalizeCalls ==
    2

\* the base asset of the raw entry at each position of a listing
BaseAssets ==
    <<"BTC", "ETH", "SOL", "ADA">>

\* one raw entry of 'symbols' in Binance's exchangeInfo
RawBinanceSymbols(base) ==
    UNION {LackingOne([status |-> status, baseAsset |-> base, quoteAsset |-> "USDT",
                    filters |-> <<[filterType |-> "PRICE_FILTER", minPrice |-> "0.01"],
                                  [filterType |-> "LOT_SIZE", minQty |-> "1"]>>]) :
              status \in {"TRADING", "BREAK"}}

\* one market of ccxt's load_markets()
RawCcxtMarkets(base) ==
    UNION {LackingOne([active |-> active, base |-> base, quote |-> "USDT",
                    limits |-> [price |-> [min |-> <<1, 100>>],
                                amount |-> [min |-> <<1, 1>>]]]) :
              active \in BOOLEAN}

\* the raw listings of n entries of an exchange, the entry at position i
\* naming BaseAssets[i]
RECURSIVE RawListings(_, _)
RawListings(exchange, n) ==
    IF n = 0 THEN {<<>>}
    ELSE {Append(listing, entry) :
             listing \in RawListings(exchange, n - 1),
             entry \in IF exchange = "BINANCE" THEN RawBinanceSymbols(BaseAssets[n])
                       ELSE RawCcxtMarkets(BaseAssets[n])}

BinanceExchangeInfos ==
    UNION {Partial([symbols |-> infos, serverTime |-> 7]) :
              infos \in UNION {RawListings("BINANCE", n) : n \in 0..MaxSymbols}}

\* raw_response.items() of ccxt's markets, in the dict's order
CcxtExchangeInfos ==
    UNION {RawListings("CCXT", n) : n \in 0..MaxSymbols}

\* the value the last filter of the given type carries, or the default
RECURSIVE FilterValue(_, _, _, _)
FilterValue(filters, type, key, value) ==
    IF filters = <<>> THEN value
    ELSE FilterValue(Tail(filters), type, key,
                     IF Get(Head(filters), "filterType", "None") = type
                     THEN float(Get(Head(filters), key, "0"))
                     ELSE value)

\* mutant of BinanceListed: the status is not looked at
BinanceListed_AnyStatus(symbol_info) ==
    /\ Get(symbol_info, "baseAsset", "") # ""
    /\ Get(symbol_info, "quoteAsset", "") # ""

\* the entries BinanceNormalizer lists: status TRADING with a base and a quote
BinanceListed(symbol_info) ==
    /\ Get(symbol_info, "status", "None") = "TRADING"
    /\ Get(symbol_info, "baseAsset", "") # ""
    /\ Get(symbol_info, "quoteAsset", "") # ""

\* one entry of 'symbols' in BinanceNormalizer.normalize_exchange_info
BinanceSymbol(symbol_info) ==
    [symbol |-> symbol_info.baseAsset \o "/" \o symbol_info.quoteAsset,
     status |-> "TRADING",
     base_asset |-> symbol_info.baseAsset,
     quote_asset |-> symbol_info.quoteAsset,
     min_price |-> FilterValue(Get(symbol_info, "filters", <<>>),
                               "PRICE_FILTER", "minPrice", RZero),
     min_qty |-> FilterValue(Get(symbol_info, "filters", <<>>),
                             "LOT_SIZE", "minQty", RZero),
     price_precision |-> Get(symbol_info, "quotePrecision", 0),
     qty_precision |-> Get(symbol_info, "baseAssetPrecision", 0)]

\* BinanceNormalizer.normalize_exchange_info on a dict
BinanceNormalizeExchangeInfo(raw) ==
    LET listed == SelectSeq(Get(raw, "symbols", <<>>), BinanceListed)
    IN  Returned([exchange |-> "BINANCE",
                  symbols |-> [i \in 1..Len(listed) |-> BinanceSymbol(listed[i])],
                  server_time |-> Get(raw, "serverTime", 0)])

\* market.get('active', False)
Active(market) ==
    Get(market, "active", FALSE)

\* market.get('limits', {}).get(what, {}).get('min', 0), float() of it or 0
CcxtMinimum(market, what) ==
    IF "limits" \in DOMAIN market THEN Fl(market.limits[what].min) ELSE RZero

\* one entry of 'symbols' in CcxtNormalizer.normalize_exchange_info
CcxtSymbol(market) ==
    [symbol |-> Get(market, "base", "") \o "/" \o Get(market, "quote", ""),
     status |-> "TRADING",
     base_asset |-> Get(market, "base", ""),
     quote_asset |-> Get(market, "quote", ""),
     min_price |-> CcxtMinimum(market, "price"),
     min_qty |-> CcxtMinimum(market, "amount"),
     price_precision |-> 0,  \* the markets carry no 'precision'
     qty_precision |-> 0]

\* CcxtNormalizer.normalize_exchange_info: a dict has no attribute rateLimit,
\* and server_time is the clock at the call
CcxtNormalizeExchangeInfo(exchange_id, raw, t) ==
    LET active == SelectSeq(raw, Active)
    IN  Returned([exchange |-> exchange_id,
                  symbols |-> [i \in 1..Len(active) |-> CcxtSymbol(active[i])],
                  rate_limits |-> <<>>,
                  server_time |-> t * 1000])

InitNormalize ==
    /\ exchanges = <<"BINANCE", "KUCOIN">>
    /\ initial_capital = RInt(12)
    /\ min_profit_percentage = <<1, 2>>
    /\ max_slippage = <<1, 2>>
    /\ target_symbols = <<"BTC/USDT">>
    /\ order_books_cache = EmptyCache
    /\ trading_fees_cache = [e \in {} |-> NoFees]
    /\ failed_symbols = NoFailed
    /\ last_fee_update = 0
    /\ opportunities_found = 0
    /\ now = StartTime
    /\ pc = "idle"
    /\ tasks = NoTasks
    /\ raised_pairs = {}
    /\ opportunities = <<>>
    /\ calc_calls = <<>>
    /\ calc_result = NoCall
    /\ exchange_info = [e \in Range(exchanges) |-> Response("raise", <<>>)]
    /\ error = "none"
    /\ discover_calls = 0
    /\ NoCallback
    /\ NoSessions
    /\ NoCredentials
    /\ NoRequests
    /\ slippage_book = EmptyBook
    /\ slippage_side = "buy"
    /\ slippage_calls = {}
    /\ \/ /\ raw_exchange = "BINANCE"
          /\ raw_endpoint = "order_book"
          /\ raw_response \in BinanceOrderBooks
       \/ /\ raw_exchange = "KUCOIN"
          /\ \/ raw_endpoint = "order_book" /\ raw_response \in KucoinOrderBooks
             \/ raw_endpoint = "ticker" /\ raw_response \in KucoinTickers
             \/ raw_endpoint = "balance" /\ raw_response \in KucoinBalances
             \/ raw_endpoint = "exchange_info" /\ raw_response \in KucoinExchangeInfos
       \/ /\ raw_exchange = "BINANCE"
          /\ raw_endpoint = "exchange_info"
          /\ raw_response \in BinanceExchangeInfos
       \/ /\ raw_exchange = "CCXT"
          /\ raw_endpoint = "exchange_info"
          /\ raw_response \in CcxtExchangeInfos
    /\ normalized = NotNormalized
    /\ normalized_first = NotNormalized
    /\ normalize_count = 0

\* a call of a normalizer method that gave result: the state keeps what the
\* first and the latest call gave
NormalizeCall(result) ==
    /\ normalize_count < MaxNormalizeCalls
    /\ normalized' = result
    /\ normalized_first' = IF normalize_count = 0 THEN result ELSE normalized_first
    /\ normalize_count' = normalize_count + 1
    /\ UNCHANGED <<config_vars, market_vars, scan_vars, target_symbols, last_fee_update,
                   now, pc, tasks, raised_pairs, calc_result, error,
                   discover_calls, callback_vars, session, sessions_opened,
                   sessions_closed, request_vars, throttle_vars,
                   slippage_book, slippage_side, slippage_calls,
                   raw_exchange, raw_endpoint, raw_response>>

\* normalizer.normalize_order_book(symbol, raw_response)
NormalizeOrderBook ==
    /\ raw_endpoint = "order_book"
    /\ NormalizeCall(IF raw_exchange = "KUCOIN"
                     THEN KucoinNormalizeOrderBook("BTC/USDT", raw_response)
                     ELSE BinanceNormalizeOrderBook("BTC/USDT", raw_response))

\* normalizer.normalize_ticker(symbol, raw_response)
NormalizeTicker ==
    /\ raw_endpoint = "ticker"
    /\ NormalizeCall(KucoinNormalizeTicker("BTC/USDT", raw_response))

\* normalizer.normalize_balance(raw_response)
NormalizeBalance ==
    /\ raw_endpoint = "balance"
    /\ NormalizeCall(KucoinNormalizeBalance(raw_response))

\* normalizer.normalize_exchange_info(raw_response), and for ccxt
\* normalizer.normalize_exchange_info(exchange_id, raw_response)
NormalizeExchangeInfo ==
    /\ raw_endpoint = "exchange_info"
    /\ NormalizeCall(IF raw_exchange = "KUCOIN"
                     THEN KucoinNormalizeExchangeInfo(raw_response)
                     ELSE IF raw_exchange = "BINANCE"
                     THEN BinanceNormalizeExchangeInfo(raw_response)
                     ELSE CcxtNormalizeExchangeInfo("OKX", raw_response, now))

\* time passes between two calls on the same raw response
NormalizeLater ==
    /\ normalize_count = 1
    /\ now + TimeStep <= MaxTime
    /\ now' = now + TimeStep
    /\ UNCHANGED <<config_vars, market_vars, scan_vars, target_symbols, last_fee_update,
                   pc, tasks, raised_pairs, calc_result, error,
                   discover_calls, callback_vars, conn_vars>>

NextNormalize ==
    \/ NormalizeOrderBook
    \/ NormalizeTicker
    \/ NormalizeBalance
    \/ NormalizeExchangeInfo
    \/ NormalizeLater

SpecNormalize ==
    InitNormalize /\ [][NextNormalize]_vars

\* C30: a normalizer called on a raw response with missing or partial fields
\* returns and never raises, and the order book it returns has an empty
\* sequence for a side the response did not carry.
C30_NormalizersNeverRaise ==
    normalized.called =>
        /\ ~normalized.raised
        /\ raw_endpoint = "order_book" =>
              LET data == IF raw_exchange = "KUCOIN"
                          THEN Get(raw_response, "data", EmptyDict)
                          ELSE raw_response
              IN  /\ "bids" \notin DOMAIN data => normalized.result.bids = <<>>
                  /\ "asks" \notin DOMAIN data => normalized.result.asks = <<>>

\* the raw entries of an exchange-info response, in the order they are read
RawEntries ==
    IF raw_exchange = "CCXT" THEN raw_response
    ELSE IF raw_exchange = "KUCOIN" THEN Get(raw_response, "data", <<>>)
    ELSE Get(raw_response, "symbols", <<>>)

\* the raw entry carries the tradable status of its exchange
Tradable(entry) ==
    IF raw_exchange = "CCXT" THEN Get(entry, "active", FALSE)
    ELSE IF raw_exchange = "KUCOIN" THEN Get(entry, "enableTrading", FALSE)
    ELSE Get(entry, "status", "None") = "TRADING"

\* the base asset the raw entry names
RawBase(entry) ==
    IF raw_exchange = "CCXT" THEN Get(entry, "base", "")
    ELSE IF raw_exchange = "KUCOIN" THEN Get(entry, "baseCurrency", "")
    ELSE Get(entry, "baseAsset", "")

C32_SameResponseSameOutput ==
    normalize_count >= 2 => normalized = normalized_first

\* ---------------------------------------------------------------------------
\* One iteration of start() in which BINANCE's fees are what
\* BinanceExchange.get_trading_fees makes of the exchange's /api/v3/tradeFee
\* answer.
\* ---------------------------------------------------------------------------

MaxFeeInfos ==
    2

\* for quote in [...] of BinanceExchange.get_trading_fees
QuoteSuffixes ==
    <<"USDT", "BTC", "ETH", "BNB", "USD", "EUR", "GBP">>

\* symbol_name.endswith(quote), for the symbols of the model
EndsWith(symbol_name, quote) ==
    \/ symbol_name \in {"BTCUSDT", "ETHUSDT"} /\ quote = "USDT"
    \/ symbol_name = "ETHBTC" /\ quote = "BTC"

\* symbol_name[:-len(quote)], for a symbol that ends with quote
BaseOf(symbol_name, quote) ==
    CASE symbol_name = "BTCUSDT" -> "BTC"
      [] symbol_name = "ETHUSDT" -> "ETH"
      [] symbol_name = "ETHBTC" -> "ETH"

\* the for/else of get_trading_fees from the k-th quote on: the first quote
\* the name ends with splits it, and a name that ends with none is kept
RECURSIVE StandardSymbol(_, _)
StandardSymbol(symbol_name, k) ==
    IF k > Len(QuoteSuffixes) THEN symbol_name
    ELSE IF EndsWith(symbol_name, QuoteSuffixes[k])
    THEN BaseOf(symbol_name, QuoteSuffixes[k]) \o "/" \o QuoteSuffixes[k]
    ELSE StandardSymbol(symbol_name, k + 1)

\* the answers of /api/v3/tradeFee: a list of up to MaxFeeInfos fee infos
TradeFeeResponses ==
    UNION {[1..n -> {[symbol |-> name, makerCommission |-> "0.01",
                      takerCommission |-> "0.01"] :
                        name \in {"BTCUSDT", "ETHBTC", "BTCUSDC"}}] :
           n \in 0..MaxFeeInfos}

\* BinanceExchange.get_trading_fees() on the answer response
BinanceGetTradingFees(response) ==
    [sym \in {StandardSymbol(response[i].symbol, 1) : i \in 1..Len(response)} |->
        LET last == CHOOSE i \in 1..Len(response) :
                        /\ StandardSymbol(response[i].symbol, 1) = sym
                        /\ \A j \in 1..Len(response) :
                               StandardSymbol(response[j].symbol, 1) = sym => j <= i
        IN  Fee(float(response[last].makerCommission),
                float(response[last].takerCommission))]

\* what get_trading_fees of the connector of an exchange may return
ConnectorFees(exchange) ==
    IF exchange = "BINANCE"
    THEN {BinanceGetTradingFees(response) : response \in TradeFeeResponses}
    ELSE LoopFees

\* _async_update_trading_fees after its connector call returned
ConnectorFeesReturn(t) ==
    /\ t \in DOMAIN tasks
    /\ TradingFeesAnswer(t, ConnectorFees(t.exchange))

InitSymbols ==
    /\ exchanges = <<"BINANCE", "KUCOIN">>
    /\ initial_capital = RInt(12)
    /\ min_profit_percentage = <<1, 2>>
    /\ max_slippage = <<1, 2>>
    /\ target_symbols = <<"BTC/USDT">>
    /\ order_books_cache = EmptyCache
    /\ trading_fees_cache = [e \in {} |-> NoFees]
    /\ failed_symbols = NoFailed
    /\ last_fee_update = 0
    /\ opportunities_found = 0
    /\ now = StartTime
    /\ pc = "loop"
    /\ tasks = NoTasks
    /\ raised_pairs = {}
    /\ opportunities = <<>>
    /\ calc_calls = <<>>
    /\ calc_result = NoCall
    /\ exchange_info = [e \in {"BINANCE", "KUCOIN"} |-> Response("raise", <<>>)]
    /\ error = "none"
    /\ discover_calls = 0
    /\ NoCallback
    /\ NoSessions
    /\ NoCredentials
    /\ NoRequests
    /\ NoCalls

NextSymbols ==
    \/ StartCycle
    \/ UpdateLaunch
    \/ \E t \in DOMAIN tasks : OrderBookRaises(t)
    \/ \E t \in DOMAIN tasks : OrderBookReturns(t)
    \/ \E t \in DOMAIN tasks : TradingFeesRaises(t)
    \/ \E t \in DOMAIN tasks : ConnectorFeesReturn(t)
    \/ GatherDone
    \/ Scan

SpecSymbols ==
    InitSymbols /\ [][NextSymbols]_vars

\* C33: every symbol that is a key of the order-book cache or of an
\* exchange's fee cache is in BASE/QUOTE form with a '/'.
C33_CachedSymbolsCanonical ==
    /\ \A symbol \in DOMAIN order_books_cache : HasSlash(symbol)
    /\ \A e \in DOMAIN trading_fees_cache :
           \A symbol \in DOMAIN trading_fees_cache[e] : HasSlash(symbol)

\* ---------------------------------------------------------------------------
\* start() under fair scheduling: the event loop runs every step that is
\* ready, and every connector call that was launched returns or raises.
\* ---------------------------------------------------------------------------

\* the engine before start(), with no symbols configured
InitLive ==
    /\ exchanges = <<"BINANCE", "KUCOIN">>
    /\ initial_capital = RInt(12)
    /\ min_profit_percentage = <<1, 2>>
    /\ max_slippage = <<1, 2>>
    /\ target_symbols = <<>>
    /\ order_books_cache = EmptyCache
    /\ trading_fees_cache = [e \in {} |-> NoFees]
    /\ failed_symbols = NoFailed
    /\ last_fee_update = 0
    /\ opportunities_found = 0
    /\ now = StartTime + 1
    /\ pc = "loop"
    /\ tasks = NoTasks
    /\ raised_pairs = {}
    /\ opportunities = <<>>
    /\ calc_calls = <<>>
    /\ calc_result = NoCall
    /\ exchange_info \in
           {[e \in {"BINANCE", "KUCOIN"} |-> IF e = "BINANCE" THEN first ELSE second] :
               first \in {Response("dict", <<Listing("BTC/USDT", "TRADING")>>),
                          Response("dict", <<>>)},
               second \in {Response("raise", <<>>)}}
    /\ error = "none"
    /\ discover_calls = 0
    /\ NoCallback
    /\ NoSessions
    /\ NoCredentials
    /\ NoRequests
    /\ NoCalls

SpecLive ==
    /\ InitLive
    /\ [][Next]_vars
    /\ WF_vars(StartCycle)
    /\ WF_vars(Discover)
    /\ WF_vars(UpdateLaunch)
    /\ WF_vars(\E t \in DOMAIN tasks : OrderBookRaises(t) \/ OrderBookReturns(t))
    /\ WF_vars(\E t \in DOMAIN tasks : TradingFeesRaises(t) \/ TradingFeesReturns(t))
    /\ WF_vars(GatherDone)
    /\ []<>(pc # "scan")
    /\ WF_vars(Sleep)

\* C34: every cycle that starts reaches the scan step, and after every scan
\* the loop goes on to wait for the next cycle, whatever the connectors
\* answer.
C34_CycleReachesScan ==
    /\ (pc = "loop") ~> (pc = "scan")
    /\ (pc = "scan") ~> (pc = "sleep")

\* ---------------------------------------------------------------------------
\* The writes of one refresh cycle
\* ---------------------------------------------------------------------------

\* the keys (symbol, exchange) whose entry differs between two caches
WrittenKeys(before, after) ==
    {key \in CacheKeys(after) :
        key \notin CacheKeys(before) \/ CacheEntry(after, key) # CacheEntry(before, key)}

FeesFailed(ts, t) ==
    /\ t \in DOMAIN ts
    /\ t.kind = "trading_fees"
    /\ ts[t].state # "pending"
    /\ ~ts[t].ok

\* C36: a fee fetch that raises or returns an empty result leaves the fee
\* cache as it was (the exchange's entry unchanged, absent if it was absent),
\* adds nothing to failed_symbols, and leaves the refresh cycle waiting for
\* its other tasks, none of which it touches.
C36_FailedFeeFetchChangesNothing ==
    [][\A t \in DOMAIN tasks :
          (tasks[t].state = "pending" /\ FeesFailed(tasks', t)) =>
              /\ trading_fees_cache' = trading_fees_cache
              /\ failed_symbols' = failed_symbols
              /\ order_books_cache' = order_books_cache
              /\ pc = "gather" /\ pc' = "gather"
              /\ error' = error
              /\ DOMAIN tasks' = DOMAIN tasks
              /\ \A u \in DOMAIN tasks \ {t} : tasks'[u] = tasks[u]]_vars

\* a later refresh has completed in which the fee fetch of an exchange with
\* cached fees raised and the fee fetch of an exchange without cached fees
\* returned nothing
C36_Witness ==
    /\ pc = "scan"
    /\ now > StartTime
    /\ \E t1 \in DOMAIN tasks, t2 \in DOMAIN tasks :
          /\ FeesFailed(tasks, t1) /\ tasks[t1].state = "raised"
          /\ t1.exchange \in DOMAIN trading_fees_cache
          /\ FeesFailed(tasks, t2) /\ tasks[t2].state = "returned"
          /\ t2.exchange \notin DOMAIN trading_fees_cache

\* C37: in every state the refresh cycles reach, every order book stored in
\* order_books_cache has non-empty bids and non-empty asks.
C37_CachedBooksHaveBothSides ==
    \A key \in CacheKeys(order_books_cache) :
        /\ CacheEntry(order_books_cache, key).data.bids # <<>>
        /\ CacheEntry(order_books_cache, key).data.asks # <<>>

\* one exchange's fetch returned a book without bids for a symbol that the
\* other exchange's fetch has put in the cache
C37_Witness ==
    \E t \in DOMAIN tasks :
        /\ ReturnedEmpty(tasks, t)
        /\ tasks[t].book.bids = <<>>
        /\ t.symbol \in DOMAIN order_books_cache
        /\ ~HasExchange(order_books_cache[t.symbol], t.exchange)
        /\ order_books_cache[t.symbol] # <<>>

\* ---------------------------------------------------------------------------
\* The opportunities one scan returns
\* ---------------------------------------------------------------------------

\* the symbol and the unordered pair of exchanges of an opportunity
PairOf(opportunity) ==
    <<opportunity.symbol, {opportunity.buy_exchange, opportunity.sell_exchange}>>

InitStale ==
    /\ exchanges = <<"BINANCE", "KUCOIN">>
    /\ initial_capital = RInt(12)
    /\ min_profit_percentage = <<1, 2>>
    /\ max_slippage = <<1, 2>>
    /\ target_symbols = <<"BTC/USDT">>
    /\ order_books_cache = EmptyCache
    /\ trading_fees_cache = [e \in {} |-> NoFees]
    /\ failed_symbols = NoFailed
    /\ last_fee_update = 0
    /\ opportunities_found = 0
    /\ now = StartTime - TimeStep
    /\ pc = "loop"
    /\ tasks = NoTasks
    /\ raised_pairs = {}
    /\ opportunities = <<>>
    /\ calc_calls = <<>>
    /\ calc_result = NoCall
    /\ exchange_info = [e \in {"BINANCE", "KUCOIN"} |-> Response("raise", <<>>)]
    /\ error = "none"
    /\ discover_calls = 0
    /\ NoCallback
    /\ NoSessions
    /\ NoCredentials
    /\ NoRequests
    /\ NoCalls

\* the connectors answer with full books and with fees, or the order-book
\* call raises
NextStale ==
    \/ StartCycle
    \/ UpdateLaunch
    \/ \E t \in DOMAIN tasks : OrderBookRaises(t)
    \/ \E t \in DOMAIN tasks : OrderBookAnswer(t, {BookLow, BookHigh})
    \/ \E t \in DOMAIN tasks : TradingFeesAnswer(t, {DefaultFees})
    \/ GatherDone
    \/ Scan
    \/ Sleep

SpecStale ==
    InitStale /\ [][NextStale]_vars

\* the keys (symbol, exchange) that the cache holds and whose fetch has raised
\* since
StaleKeys ==
    {key \in CacheKeys(order_books_cache) : <<key[2], key[1]>> \in FailedPairs}

\* C39: once the fetch of a cached pair (exchange, symbol) has raised, its
\* cached order book is never written again and stays in the cache, and in
\* every later scan it is compared with the other exchanges' books: whenever
\* the two books have a favourable direction the calculator is called for
\* the pair.
C39_StaleBookStaysInUse ==
    /\ [][\A key \in StaleKeys :
             /\ key \in CacheKeys(order_books_cache')
             /\ CacheEntry(order_books_cache', key) = CacheEntry(order_books_cache, key)
             /\ <<key[2], key[1]>> \in FailedPairs']_vars
    /\ [](pc = "sleep" =>
             \A key \in StaleKeys :
                 key[1] \in Range(target_symbols) =>
                     \A k \in 1..Len(order_books_cache[key[1]]) :
                         \E stale \in {CacheEntry(order_books_cache, key)},
                            other \in {order_books_cache[key[1]][k]} :
                             (/\ other.exchange # key[2]
                              /\ Direction(stale.data, other.data) # "skip") =>
                                 \/ Called(key[1], stale, other)
                                 \/ Called(key[1], other, stale))

\* the third cycle's scan has returned an opportunity that sells at the bid
\* of a book cached in the first cycle, whose fetch raised in the second
C39_Witness ==
    /\ pc = "sleep"
    /\ \E n \in 1..Len(opportunities) :
          \E key \in {<<opportunities[n].symbol, opportunities[n].sell_exchange>>} :
              /\ key \in StaleKeys
              /\ CacheEntry(order_books_cache, key).timestamp = StartTime - TimeStep
              /\ now > StartTime + TimeStep
              /\ opportunities[n].timestamp = now

\* ---------------------------------------------------------------------------
\* start() with connectors that return books with zero prices and zero sizes
\* ---------------------------------------------------------------------------

\* a book whose best ask has the price 0
BookZeroAsk ==
    [bids |-> <<<<5, 4>>>>, asks |-> <<<<0, 4>>, <<6, 4>>>>]

\* a book whose levels have the size 0
BookZeroSize ==
    [bids |-> <<<<8, 0>>>>, asks |-> <<<<9, 0>>>>]

NextMalformed ==
    \/ StartCycle
    \/ UpdateLaunch
    \/ \E t \in DOMAIN tasks : OrderBookRaises(t)
    \/ \E t \in DOMAIN tasks : OrderBookAnswer(t, {BookLow, BookZeroAsk, BookZeroSize})
    \/ \E t \in DOMAIN tasks : TradingFeesAnswer(t, {DefaultFees})
    \/ GatherDone
    \/ Scan
    \/ Sleep

SpecMalformed ==
    InitStale /\ [][NextMalformed]_vars

\* C40: whatever books the refresh has accepted, books with a zero best
\* price or zero-size levels among them, scan_opportunities and
\* calculate_potential_profit complete without raising, so the scan never
\* ends the loop.
C40_ScanNeverRaises ==
    /\ pc # "raised"
    /\ error = "none"

====
